---- MODULE Spec2Model ----
(***************************************************************************)
(* Model of the primordial-soup simulation engine: World (world.ts) and    *)
(* Organism / Food (organism.ts, food.ts).                                 *)
(*                                                                         *)
(* Numbers.  The program computes in floating point; the model computes    *)
(* in fixed point, rounding toward zero:                                   *)
(*   lengths, positions, velocities, radii : hundredths of a pixel         *)
(*   energy, maxEnergy, reproductionThreshold : hundredths of a unit       *)
(*   speed, efficiency, aggression, size, socialness : hundredths          *)
(*   age, lifespan, reproductionCooldown, time, timers : ticks             *)
(* A Math.random() draw is a choice from a small set of values of its      *)
(* range.                                                                  *)
(***************************************************************************)
EXTENDS Integers, Sequences, FiniteSets, TLC

(***************************************************************************)
(* Bounds of the model.                                                    *)
(***************************************************************************)
\* logical ticks and commands (clicks, keys, reset, applySettings) explored from
\* an initial world
MaxSteps == 2
\* largest population whose frames are explored
MaxPopulation == 4

(***************************************************************************)
(* Arithmetic helpers.                                                     *)
(***************************************************************************)
Min(a, b) == IF a < b THEN a ELSE b
Max(a, b) == IF a > b THEN a ELSE b
\* division rounding toward zero, b > 0
TruncDiv(a, b) == IF a >= 0 THEN a \div b ELSE 0 - ((0 - a) \div b)

RECURSIVE SqrtSearch(_, _, _)
SqrtSearch(n, lo, hi) ==
    IF lo >= hi THEN lo
    ELSE LET mid == (lo + hi + 1) \div 2
         IN  IF mid * mid <= n THEN SqrtSearch(n, mid, hi)
             ELSE SqrtSearch(n, lo, mid - 1)
\* floor of Math.sqrt(n), n >= 0
Sqrt(n) == SqrtSearch(n, 0, 46340)

Splice(s, k) ==
    \* Array.prototype.splice(k - 1, 1): an index past the end removes nothing
    IF k >= 1 /\ k <= Len(s)
    THEN [n \in 1..(Len(s) - 1) |-> IF n < k THEN s[n] ELSE s[n + 1]]
    ELSE s

(***************************************************************************)
(* The arena and its obstacles.                                            *)
(***************************************************************************)
CanvasWidth == 300 * 100
CanvasHeight == 300 * 100

\* World.createObstacles: 5..12 rectangles with x, y in [50, size - 50) and
\* width, height in [30, 100)
Obstacles ==
    << [x |-> 12000, y |-> 6000, width |-> 5000, height |-> 5000],
       [x |-> 5000, y |-> 20000, width |-> 3000, height |-> 9900],
       [x |-> 20000, y |-> 20000, width |-> 9000, height |-> 3000],
       [x |-> 24000, y |-> 5000, width |-> 3000, height |-> 3000],
       [x |-> 18000, y |-> 13000, width |-> 4000, height |-> 6000] >>

isPointInObstacle(obs, x, y) ==
    \E k \in 1..Len(obs) :
        /\ x >= obs[k].x
        /\ x <= obs[k].x + obs[k].width
        /\ y >= obs[k].y
        /\ y <= obs[k].y + obs[k].height

(***************************************************************************)
(* Organism (organism.ts).                                                 *)
(***************************************************************************)
Species == {"herbivore", "carnivore", "omnivore"}
NoTarget == << >>

\* the Organism constructor; rv = the two (Math.random() - 0.5) draws, in
\* hundredths
NewOrganism(id, x, y, species, dna, rv) ==
    LET maxE == 8000 + dna.size * 40
    IN  [id |-> id, x |-> x, y |-> y,
         dx |-> TruncDiv(rv[1] * 4 * dna.speed, 100),
         dy |-> TruncDiv(rv[2] * 4 * dna.speed, 100),
         energy |-> (maxE * 8) \div 10, maxEnergy |-> maxE,
         age |-> 0, dna |-> dna, species |-> species,
         target |-> NoTarget, reproductionCooldown |-> 0]

\* Math.sqrt of a negative energy ratio is NaN, and so is the radius
RadiusIsNaN(o) == o.energy < 0

getRadius(o) ==
    IF RadiusIsNaN(o) THEN 0 - 1
    ELSE LET base == 400 + 4 * o.dna.size
             ratio == (o.energy * 1000) \div o.maxEnergy
         IN  Max(300, Sqrt((base * base * ratio) \div 1000))

\* a.getRadius() * den < b.getRadius() * num; a comparison with NaN is false
RadiusLess(a, den, b, num) ==
    /\ ~RadiusIsNaN(a)
    /\ ~RadiusIsNaN(b)
    /\ getRadius(a) * den < getRadius(b) * num

DistSq(x1, y1, x2, y2) == (x1 - x2) * (x1 - x2) + (y1 - y2) * (y1 - y2)

distanceTo(o, x, y) == Sqrt(DistSq(o.x, o.y, x, y))

\* distanceTo(x, y) < limit, limit a whole number of hundredths
CloserThan(o, x, y, limit) == DistSq(o.x, o.y, x, y) < limit * limit

\* other.radius || 3: an Organism has no radius field, a Food has one
isCollidingWith(o, ox, oy, otherRadius) ==
    /\ ~RadiusIsNaN(o)
    /\ CloserThan(o, ox, oy, getRadius(o) + otherRadius)

isCollidingWithObstacle(o, ob) ==
    LET radius == getRadius(o)
    IN  /\ ~RadiusIsNaN(o)
        /\ o.x + radius > ob.x
        /\ o.x - radius < ob.x + ob.width
        /\ o.y + radius > ob.y
        /\ o.y - radius < ob.y + ob.height

\* mutant of canReproduce: the cooldown may still have one tick to run
canReproduceInLastCooldownTick(o) ==
    /\ o.energy > o.dna.reproductionThreshold
    /\ o.reproductionCooldown <= 1
    /\ o.age > 200

\* mutant of canReproduce: maturity is reached at age 200
canReproduceFrom200(o) ==
    /\ o.energy > o.dna.reproductionThreshold
    /\ o.reproductionCooldown = 0
    /\ o.age >= 200

canReproduce(o) ==
    /\ o.energy > o.dna.reproductionThreshold
    /\ o.reproductionCooldown = 0
    /\ o.age > 200

\* mutant of isDead: starvation is forgotten
isDeadOldOnly(o) == o.age > o.dna.lifespan

\* mutant of isDead: old age is forgotten
isDeadStarvedOnly(o) == o.energy <= 0

isDead(o) == o.energy <= 0 \/ o.age > o.dna.lifespan

\* findNearest over a non-empty sequence of points: the first of the nearest
RECURSIVE NearestFrom(_, _, _, _)
NearestFrom(o, targets, k, nearest) ==
    IF k > Len(targets) THEN nearest
    ELSE IF DistSq(o.x, o.y, targets[k][1], targets[k][2])
              < DistSq(o.x, o.y, nearest[1], nearest[2])
         THEN NearestFrom(o, targets, k + 1, targets[k])
         ELSE NearestFrom(o, targets, k + 1, nearest)

findNearest(o, targets) ==
    IF Len(targets) = 0 THEN NoTarget
    ELSE NearestFrom(o, targets, 1, targets[1])

Points(s) == [k \in 1..Len(s) |-> <<s[k].x, s[k].y>>]

moveTowards(o, targetX, targetY) ==
    LET ddx == targetX - o.x
        ddy == targetY - o.y
        distance == distanceTo(o, targetX, targetY)
    IN  IF DistSq(o.x, o.y, targetX, targetY) > 500 * 500
        THEN [o EXCEPT !.dx = @ + TruncDiv(ddx * o.dna.speed, 5 * distance),
                       !.dy = @ + TruncDiv(ddy * o.dna.speed, 5 * distance)]
        ELSE [o EXCEPT !.target = NoTarget]

RECURSIVE SumX(_, _)
SumX(s, k) == IF k = 0 THEN 0 ELSE s[k].x + SumX(s, k - 1)
RECURSIVE SumY(_, _)
SumY(s, k) == IF k = 0 THEN 0 ELSE s[k].y + SumY(s, k - 1)

\* the separation loop of applyFlocking, neighbours k..Len
RECURSIVE Separation(_, _, _)
Separation(o, neighbors, k) ==
    IF k > Len(neighbors) THEN o
    ELSE LET n == neighbors[k]
             d2 == DistSq(o.x, o.y, n.x, n.y)
             distance == distanceTo(o, n.x, n.y)
         IN  IF d2 < 3000 * 3000 /\ d2 > 0 /\ distance > 0
             THEN Separation(
                      [o EXCEPT !.dx = @ - TruncDiv((n.x - o.x) * 5, distance),
                                !.dy = @ - TruncDiv((n.y - o.y) * 5, distance)],
                      neighbors, k + 1)
             ELSE Separation(o, neighbors, k + 1)

applyFlocking(o, organisms) ==
    LET IsNeighbor(n) == /\ n.id # o.id
                         /\ n.species = o.species
                         /\ CloserThan(o, n.x, n.y, 8000)
        neighbors == SelectSeq(organisms, IsNeighbor)
    IN  IF Len(neighbors) = 0 THEN o
        ELSE LET centerX == TruncDiv(SumX(neighbors, Len(neighbors)), Len(neighbors))
                 centerY == TruncDiv(SumY(neighbors, Len(neighbors)), Len(neighbors))
                 cohered ==
                     [o EXCEPT
                        !.dx = @ + TruncDiv((centerX - o.x) * 2 * o.dna.socialness, 100000),
                        !.dy = @ + TruncDiv((centerY - o.y) * 2 * o.dna.socialness, 100000)]
             IN  Separation(cohered, neighbors, 1)

\* the foraging rule of updateAI
ForageTarget(o, food) ==
    IF /\ o.species \in {"herbivore", "omnivore"}
       /\ o.energy * 10 < o.maxEnergy * 7
       /\ Len(food) > 0
    THEN findNearest(o, Points(food))
    ELSE NoTarget

\* the hunting rule of updateAI
HuntTarget(o, organisms) ==
    IF /\ \/ o.species = "carnivore"
          \/ o.species = "omnivore" /\ o.dna.aggression > 50
       /\ o.energy * 10 < o.maxEnergy * 6
    THEN LET IsPrey(p) ==
                 /\ p.id # o.id
                 /\ \/ p.species = "herbivore"
                    \/ p.species = "omnivore" /\ RadiusLess(p, 1, o, 1)
         IN  findNearest(o, Points(SelectSeq(organisms, IsPrey)))
    ELSE NoTarget

\* mutant of updateAI: the hunting rule runs before the foraging rule
updateAIForagingLast(o, organisms, food, jitter) ==
    LET hunt == HuntTarget(o, organisms)
        o1 == IF hunt # NoTarget THEN [o EXCEPT !.target = hunt] ELSE o
        forage == ForageTarget(o1, food)
        o2 == IF forage # NoTarget THEN [o1 EXCEPT !.target = forage] ELSE o1
        o3 == IF o2.dna.socialness > 50 THEN applyFlocking(o2, organisms) ELSE o2
    IN  IF o3.target # NoTarget
        THEN moveTowards(o3, o3.target[1], o3.target[2])
        ELSE [o3 EXCEPT !.dx = @ + jitter[1], !.dy = @ + jitter[2]]

\* Organism.updateAI; jitter = the two wandering draws (Math.random() - 0.5) * 0.3
updateAI(o, organisms, food, jitter) ==
    LET forage == ForageTarget(o, food)
        o1 == IF forage # NoTarget THEN [o EXCEPT !.target = forage] ELSE o
        hunt == HuntTarget(o1, organisms)
        o2 == IF hunt # NoTarget THEN [o1 EXCEPT !.target = hunt] ELSE o1
        o3 == IF o2.dna.socialness > 50 THEN applyFlocking(o2, organisms) ELSE o2
    IN  IF o3.target # NoTarget
        THEN moveTowards(o3, o3.target[1], o3.target[2])
        ELSE [o3 EXCEPT !.dx = @ + jitter[1], !.dy = @ + jitter[2]]

\* the obstacle loop of Organism.update, obstacles k..Len
RECURSIVE ObstacleBounce(_, _, _)
ObstacleBounce(o, obs, k) ==
    IF k > Len(obs) THEN o
    ELSE IF isCollidingWithObstacle(o, obs[k])
         THEN LET ndx == IF o.x < obs[k].x \/ o.x > obs[k].x + obs[k].width
                         THEN 0 - o.dx ELSE o.dx
                  ndy == IF o.y < obs[k].y \/ o.y > obs[k].y + obs[k].height
                         THEN 0 - o.dy ELSE o.dy
              IN  ObstacleBounce(
                      [o EXCEPT !.dx = ndx, !.dy = ndy,
                                !.x = @ - ndx, !.y = @ - ndy],
                      obs, k + 1)
         ELSE ObstacleBounce(o, obs, k + 1)

\* energy consumption of one update at currentSpeed
energyConsumption(o, currentSpeed) ==
    TruncDiv(1000 + 10 * currentSpeed, o.dna.efficiency)

\* mutant of update: the position is held above the lower bounds only
updateClampLowerOnly(o, canvasWidth, canvasHeight, obs) ==
    LET moved == [o EXCEPT !.age = @ + 1, !.x = @ + o.dx, !.y = @ + o.dy]
        b == ObstacleBounce(moved, obs, 1)
        nan == RadiusIsNaN(b)
        radius == getRadius(b)
        wdx == IF ~nan /\ (b.x <= radius \/ b.x >= canvasWidth - radius)
               THEN 0 - b.dx ELSE b.dx
        wdy == IF ~nan /\ (b.y <= radius \/ b.y >= canvasHeight - radius)
               THEN 0 - b.dy ELSE b.dy
        nx == IF nan THEN 0 - 1 ELSE Max(radius, b.x)
        ny == IF nan THEN 0 - 1 ELSE Max(radius, b.y)
        fdx == TruncDiv(wdx * 99, 100)
        fdy == TruncDiv(wdy * 99, 100)
        maxSpeed == b.dna.speed * 3
        currentSpeed == Sqrt(fdx * fdx + fdy * fdy)
        limited == currentSpeed > maxSpeed
    IN  [b EXCEPT
           !.x = nx, !.y = ny,
           !.dx = IF limited THEN TruncDiv(fdx * maxSpeed, currentSpeed) ELSE fdx,
           !.dy = IF limited THEN TruncDiv(fdy * maxSpeed, currentSpeed) ELSE fdy,
           !.energy = @ - energyConsumption(b, currentSpeed),
           !.reproductionCooldown = IF @ > 0 THEN @ - 1 ELSE @]

\* Organism.update
update(o, canvasWidth, canvasHeight, obs) ==
    LET moved == [o EXCEPT !.age = @ + 1, !.x = @ + o.dx, !.y = @ + o.dy]
        b == ObstacleBounce(moved, obs, 1)
        nan == RadiusIsNaN(b)
        radius == getRadius(b)
        wdx == IF ~nan /\ (b.x <= radius \/ b.x >= canvasWidth - radius)
               THEN 0 - b.dx ELSE b.dx
        wdy == IF ~nan /\ (b.y <= radius \/ b.y >= canvasHeight - radius)
               THEN 0 - b.dy ELSE b.dy
        \* Math.max(NaN, ...) is NaN
        nx == IF nan THEN 0 - 1 ELSE Max(radius, Min(canvasWidth - radius, b.x))
        ny == IF nan THEN 0 - 1 ELSE Max(radius, Min(canvasHeight - radius, b.y))
        fdx == TruncDiv(wdx * 99, 100)
        fdy == TruncDiv(wdy * 99, 100)
        maxSpeed == b.dna.speed * 3
        currentSpeed == Sqrt(fdx * fdx + fdy * fdy)
        limited == currentSpeed > maxSpeed
    IN  [b EXCEPT
           !.x = nx, !.y = ny,
           !.dx = IF limited THEN TruncDiv(fdx * maxSpeed, currentSpeed) ELSE fdx,
           !.dy = IF limited THEN TruncDiv(fdy * maxSpeed, currentSpeed) ELSE fdy,
           !.energy = @ - energyConsumption(b, currentSpeed),
           !.reproductionCooldown = IF @ > 0 THEN @ - 1 ELSE @]

\* child DNA of Organism.reproduce before clamping; m = (Math.random() - 0.5)
\* in hundredths, the same draw scaled for every trait
CrossoverDNA(a, b, m) ==
    [speed |-> TruncDiv(a.speed + b.speed, 2) + TruncDiv(m * 20, 100),
     efficiency |-> TruncDiv(a.efficiency + b.efficiency, 2) + TruncDiv(m * 20, 100),
     aggression |-> TruncDiv(a.aggression + b.aggression, 2) + TruncDiv(m * 20, 100),
     size |-> TruncDiv(a.size + b.size, 2) + TruncDiv(m * 10, 100),
     reproductionThreshold |->
         TruncDiv(a.reproductionThreshold + b.reproductionThreshold, 2) + m * 10,
     lifespan |-> TruncDiv(a.lifespan + b.lifespan, 2) + m * 5,
     socialness |-> TruncDiv(a.socialness + b.socialness, 2) + TruncDiv(m * 20, 100)]

MutateDNA(a, m) ==
    [speed |-> a.speed + TruncDiv(m * 10, 100),
     efficiency |-> a.efficiency + TruncDiv(m * 10, 100),
     aggression |-> a.aggression + TruncDiv(m * 10, 100),
     size |-> a.size + TruncDiv(m * 5, 100),
     reproductionThreshold |-> a.reproductionThreshold + m * 5,
     lifespan |-> a.lifespan + m * 2,
     socialness |-> a.socialness + TruncDiv(m * 10, 100)]

\* mutant of ClampDNA: the lower bounds (Math.max) are forgotten
ClampDNAUpperOnly(d) ==
    [speed |-> Min(200, d.speed),
     efficiency |-> Min(200, d.efficiency),
     aggression |-> Min(100, d.aggression),
     size |-> Min(150, d.size),
     reproductionThreshold |-> Min(12000, d.reproductionThreshold),
     lifespan |-> Min(6000, d.lifespan),
     socialness |-> Min(100, d.socialness)]

\* the clamping of the child's traits
ClampDNA(d) ==
    [speed |-> Max(20, Min(200, d.speed)),
     efficiency |-> Max(20, Min(200, d.efficiency)),
     aggression |-> Max(0, Min(100, d.aggression)),
     size |-> Max(50, Min(150, d.size)),
     reproductionThreshold |-> Max(4000, Min(12000, d.reproductionThreshold)),
     lifespan |-> Max(1000, Min(6000, d.lifespan)),
     socialness |-> Max(0, Min(100, d.socialness))]

\* mutant of ReproduceParent: the cost is paid twice
ReproduceParentDoubleCost(o) ==
    [o EXCEPT !.energy = @ - 2 * ((o.dna.reproductionThreshold * 6) \div 10),
              !.reproductionCooldown = 300]

\* mutant of ReproduceParent: the cooldown is not set
ReproduceParentNoCooldown(o) ==
    [o EXCEPT !.energy = @ - (o.dna.reproductionThreshold * 6) \div 10]

\* the parent after Organism.reproduce
ReproduceParent(o) ==
    [o EXCEPT !.energy = @ - (o.dna.reproductionThreshold * 6) \div 10,
              !.reproductionCooldown = 300]

\* the offspring of Organism.reproduce; hasPartner/partner = the optional mate,
\* r = [m, cos, sin, rv] the random draws (cos and sin in thousandths)
ReproduceChild(o, hasPartner, partner, id, r) ==
    LET parent == ReproduceParent(o)
        childDNA == ClampDNA(IF hasPartner THEN CrossoverDNA(o.dna, partner.dna, r.m)
                             ELSE MutateDNA(o.dna, r.m))
        distance == getRadius(parent) + 1000
        childX == parent.x + TruncDiv(r.cos * distance, 1000)
        childY == parent.y + TruncDiv(r.sin * distance, 1000)
    IN  NewOrganism(id, childX, childY, o.species, childDNA, r.rv)

\* the Food constructor; energy = 25 + Math.random() * 15
NewFood(id, x, y, energy) ==
    [id |-> id, x |-> x, y |-> y, energy |-> energy,
     radius |-> 200 + (energy * 3) \div 40]

(***************************************************************************)
(* World (world.ts).                                                       *)
(***************************************************************************)
VARIABLES
    organisms,       \* World.organisms, each with a model-only identity `id`
    food,            \* World.food, each with a model-only identity `id`
    obstacles,       \* World.obstacles
    particles,       \* World.particles: the remaining life of each, in 0.02 steps
    foodSpawnTimer,  \* World.foodSpawnTimer
    time,            \* World.time
    paused,          \* World.paused
    speed,           \* World.speed, in halves (1, 2, 4, 8 for 0.5, 1, 2, 4)
    stats,           \* World.stats
    currentAction,   \* UIManager.currentAction
    pc,              \* position of update(): idle, tick, org, update, feed, repro, death
    tick,            \* loop variable of the tick loop
    i,               \* loop variable of the organism loop (1-based)
    j,               \* loop variable of the food loop (1-based)
    cur,             \* the object `organism` of the current turn, by identity
    wander,          \* the draws (Math.random() - 0.5) * 0.3 of updateAI in this tick
    nextId,          \* next fresh organism identity
    nextFoodId,      \* next fresh food identity
    placed,          \* history: organisms added by clicks since the last reset
    budget,          \* logical ticks and commands still explored
    child,           \* the local `child` of the reproduction block, NoChild if none
    spent,           \* history: energy consumed by the last Organism.update
    tickStart,       \* history: organisms and food when the tick began
    turns,           \* history: identities that began a turn in this tick, in order
    preyed,          \* history: identities removed by predation in this tick
    op,              \* history: the step taken last and its input
    mated,           \* history: the last reproduce(mate) call with a mate
    initiated,       \* history: per organism, World.time of its last two reproduce calls
    previousStats,   \* EnhancedStatsManager.previousStats
    frameStart,      \* history: World.time when the current update() call began
    prev             \* history: the state before the last step

vars == <<organisms, food, obstacles, particles, foodSpawnTimer, time, paused,
          speed, stats, currentAction, pc, tick, i, j, cur, nextId, nextFoodId,
          placed, budget, child, spent, tickStart, turns, preyed, op,
          frameStart, wander, mated,
          initiated, previousStats, prev>>

NoChild == << >>

\* no reproduce(mate) call with a mate yet
NoMate == [parent |-> 0, mate |-> 0, time |-> 0]

Ids(s) == {s[k].id : k \in 1..Len(s)}

IndexOf(s, id) == CHOOSE k \in 1..Len(s) : s[k].id = id

Lookup(s, id) == s[IndexOf(s, id)]

\* a write to the object with o's identity
Store(s, o) == [k \in 1..Len(s) |-> IF s[k].id = o.id THEN o ELSE s[k]]

\* the record of reproduce calls after the organism id made one at time t
Initiates(h, id, t) ==
    [k \in DOMAIN h \cup {id} |->
        IF k # id THEN h[k]
        ELSE IF id \in DOMAIN h THEN <<h[id][Len(h[id])], t>> ELSE <<t>>]

\* the record of reproduce calls of a world in the middle of a run: an organism
\* in cooldown set it to 300 at its last call and took a turn in every tick since
InitiatedBy(orgs, t) ==
    [id \in {orgs[k].id : k \in {n \in 1..Len(orgs) : orgs[n].reproductionCooldown > 0}} |->
        <<t - (300 - Lookup(orgs, id).reproductionCooldown)>>]

Snapshot ==
    [pc |-> pc, organisms |-> organisms, food |-> food, obstacles |-> obstacles,
     particles |-> particles, foodSpawnTimer |-> foodSpawnTimer, time |-> time,
     paused |-> paused, speed |-> speed, stats |-> stats,
     currentAction |-> currentAction, i |-> i, j |-> j, cur |-> cur,
     previousStats |-> previousStats]

\* createParticleEffect: 8 particles for "death", 4 otherwise, each of life 1.0
createParticleEffect(ps, type) ==
    ps \o [k \in 1..(IF type = "death" THEN 8 ELSE 4) |-> 50]

\* the point drawn at the given attempt of the do-while loop of spawnFood; the
\* draws repeat cyclically
Candidate(cands, attempts) == cands[((attempts - 1) % Len(cands)) + 1]

\* mutant of PlacementAttempts: the loop test is attempts <= 10
RECURSIVE PlacementAttemptsOneMore(_, _)
PlacementAttemptsOneMore(cands, attempts) ==
    LET pt == Candidate(cands, attempts)
    IN  IF attempts <= 10 /\ isPointInObstacle(obstacles, pt[1], pt[2])
        THEN PlacementAttemptsOneMore(cands, attempts + 1)
        ELSE attempts

\* do { draw; attempts++ } while (attempts < 10 && isPointInObstacle(x, y)):
\* the number of draws made, the last being the one kept
RECURSIVE PlacementAttempts(_, _)
PlacementAttempts(cands, attempts) ==
    LET pt == Candidate(cands, attempts)
    IN  IF attempts < 10 /\ isPointInObstacle(obstacles, pt[1], pt[2])
        THEN PlacementAttempts(cands, attempts + 1)
        ELSE attempts

\* spawnFood(count): item k is drawn from draws[k] = [cands, energy], cands the
\* successive points of its do-while loop
spawnFood(fs, firstId, count, draws) ==
    LET kept == [n \in 1..Len(draws) |->
                    Candidate(draws[n].cands, PlacementAttempts(draws[n].cands, 1))]
        Item(k) == LET n == ((k - 1) % Len(draws)) + 1
                   IN  NewFood(firstId + k - 1, kept[n][1], kept[n][2],
                               draws[n].energy)
    IN  fs \o [k \in 1..Max(count, 0) |-> Item(k)]

\* one block of setupInitialPopulation: count founders of one species
Founders(firstId, count, species, draws) ==
    LET Founder(k) == LET d == draws[((k - 1) % Len(draws)) + 1]
                      IN  NewOrganism(firstId + k - 1, d.x, d.y, species, d.dna, d.rv)
    IN  [k \in 1..count |-> Founder(k)]

\* mutant of setupInitialPopulation: the omnivore and carnivore counts are swapped
setupInitialPopulationSwapped(orgs, firstId, draws) ==
    orgs \o Founders(firstId, 25, "herbivore", draws)
         \o Founders(firstId + 25, 10, "omnivore", draws)
         \o Founders(firstId + 35, 15, "carnivore", draws)

\* World.setupInitialPopulation: 25 herbivores, 15 omnivores, 10 carnivores
setupInitialPopulation(orgs, firstId, draws) ==
    orgs \o Founders(firstId, 25, "herbivore", draws)
         \o Founders(firstId + 25, 15, "omnivore", draws)
         \o Founders(firstId + 40, 10, "carnivore", draws)

CountSpecies(orgs, sp) == Cardinality({k \in 1..Len(orgs) : orgs[k].species = sp})

RECURSIVE SumAge(_, _)
SumAge(s, k) == IF k = 0 THEN 0 ELSE s[k].age + SumAge(s, k - 1)
RECURSIVE SumEnergy(_, _)
SumEnergy(s, k) == IF k = 0 THEN 0 ELSE s[k].energy + SumEnergy(s, k - 1)

\* mutant of updateStats: the statistics record is rebuilt, the event counters
\* starting again from 0
updateStatsRebuilt(st, orgs, fs) ==
    [herbivoreCount |-> CountSpecies(orgs, "herbivore"),
     carnivoreCount |-> CountSpecies(orgs, "carnivore"),
     omnivoreCount |-> CountSpecies(orgs, "omnivore"),
     totalPopulation |-> Len(orgs),
     averageAge |-> IF Len(orgs) > 0
                    THEN TruncDiv(SumAge(orgs, Len(orgs)), Len(orgs)) ELSE 0,
     averageEnergy |-> IF Len(orgs) > 0
                       THEN TruncDiv(SumEnergy(orgs, Len(orgs)), Len(orgs)) ELSE 0,
     foodCount |-> Len(fs),
     reproductionEvents |-> 0,
     deathEvents |-> 0]

\* World.updateStats
updateStats(st, orgs, fs) ==
    [st EXCEPT
       !.herbivoreCount = CountSpecies(orgs, "herbivore"),
       !.carnivoreCount = CountSpecies(orgs, "carnivore"),
       !.omnivoreCount = CountSpecies(orgs, "omnivore"),
       !.totalPopulation = Len(orgs),
       !.averageAge = IF Len(orgs) > 0
                      THEN TruncDiv(SumAge(orgs, Len(orgs)), Len(orgs)) ELSE 0,
       !.averageEnergy = IF Len(orgs) > 0
                         THEN TruncDiv(SumEnergy(orgs, Len(orgs)), Len(orgs)) ELSE 0,
       !.foodCount = Len(fs)]

(***************************************************************************)
(* EnhancedStatsManager (stats-manager.ts): the trend flags.               *)
(***************************************************************************)
\* an optional number (number | undefined) is a sequence of at most one number
Undefined == << >>

\* previousStats before the first updateEnhancedStats call
Null == << >>

Abs(n) == IF n < 0 THEN 0 - n ELSE n

\* EnhancedStatsManager.getTrend; Math.abs(previous) * 0.05 is exact for the
\* counts compared here, so |diff| < threshold is 20 * |diff| < |previous|
getTrend(current, previous) ==
    IF previous = Undefined THEN "stable"
    ELSE LET diff == current - previous[1]
         IN  IF Abs(diff) * 20 < Abs(previous[1]) THEN "stable"
             ELSE IF diff > 0 THEN "up" ELSE "down"

\* this.previousStats?.field
Optional(ps, field) == IF ps = Null THEN Undefined ELSE <<ps[field]>>

\* the fields of enhancedStats that later calls read back, and the two trends
updateEnhancedStats(ps, basicStats) ==
    [totalPopulation |-> basicStats.totalPopulation,
     foodCount |-> basicStats.foodCount,
     populationTrend |-> getTrend(basicStats.totalPopulation,
                                  Optional(ps, "totalPopulation")),
     foodTrend |-> getTrend(basicStats.foodCount, Optional(ps, "foodCount"))]

(***************************************************************************)
(* World.update, one organism's turn.                                      *)
(***************************************************************************)
\* number of logical ticks left to run in this frame: tick < this.speed
TickLoopContinues(t, sp) == t * 2 < sp

\* mutant of Eats: the species test is inverted
EatsCarnivoreOnly(o, f) ==
    /\ isCollidingWith(o, f.x, f.y, f.radius)
    /\ o.species = "carnivore"

\* the food-consumption test of one food item
Eats(o, f) ==
    /\ isCollidingWith(o, f.x, f.y, f.radius)
    /\ o.species # "carnivore"

\* mutant of Fed: an organism fed past its maxEnergy grows to hold the surplus
FedGrowing(o, f) ==
    [o EXCEPT !.energy = o.energy + f.energy,
              !.maxEnergy = Max(@, o.energy + f.energy)]

\* mutant of Fed: the cap at maxEnergy is forgotten
FedUncapped(o, f) == [o EXCEPT !.energy = o.energy + f.energy]

\* the organism after consuming f
Fed(o, f) == [o EXCEPT !.energy = Min(o.energy + f.energy, o.maxEnergy)]

\* mutant of IsPredator: the hunting threshold 0.5 of updateAI is used
IsPredatorAbove50(o) ==
    \/ o.species = "carnivore"
    \/ o.species = "omnivore" /\ o.dna.aggression > 50

\* the guard of the predation block
IsPredator(o) ==
    \/ o.species = "carnivore"
    \/ o.species = "omnivore" /\ o.dna.aggression > 60

\* the two nested conditions of the predation loop body
CanKill(o, prey) ==
    /\ prey.id # o.id
    /\ isCollidingWith(o, prey.x, prey.y, 300)
    /\ \/ prey.species = "herbivore"
       \/ RadiusLess(prey, 10, o, 8)
    /\ o.energy > prey.energy

\* mutant of energyGain: the gain is not capped by the room left
energyGainUncapped(o, prey) == (prey.energy * 7) \div 10

\* the energy a predator takes from its prey
energyGain(o, prey) == Min((prey.energy * 7) \div 10, o.maxEnergy - o.energy)

\* mutant of IndexAdjust: the index is lowered after every removal
IndexAdjustAlways(ii, jj) == ii - 1

\* mutant of IndexAdjust: the index is not corrected after a removal
IndexNoAdjust(ii, jj) == ii

\* if (i > j) i--
IndexAdjust(ii, jj) == IF ii > jj THEN ii - 1 ELSE ii

\* mutant of Kill: the death counter is not incremented
KillUncounted(st, id, k) ==
    LET o == Lookup(st.organisms, id)
        prey == st.organisms[k]
        fedOrgs == Store(st.organisms, [o EXCEPT !.energy = @ + energyGain(o, prey)])
    IN  [organisms |-> Splice(fedOrgs, k),
         particles |-> createParticleEffect(st.particles, "death"),
         deathEvents |-> st.deathEvents,
         i |-> IndexAdjust(st.i, k),
         killed |-> st.killed \cup {prey.id}]

\* the body of a successful kill of st.organisms[k] by the organism id
Kill(st, id, k) ==
    LET o == Lookup(st.organisms, id)
        prey == st.organisms[k]
        fedOrgs == Store(st.organisms, [o EXCEPT !.energy = @ + energyGain(o, prey)])
    IN  [organisms |-> Splice(fedOrgs, k),
         particles |-> createParticleEffect(st.particles, "death"),
         deathEvents |-> st.deathEvents + 1,
         i |-> IndexAdjust(st.i, k),
         killed |-> st.killed \cup {prey.id}]

RECURSIVE PredationScan(_, _, _)

\* mutant of AfterKill: the scan goes on after a kill
AfterKillContinue(st, id, k) == PredationScan(st, id, k - 1)

\* the `break` after a kill at index k
AfterKill(st, id, k) == st

\* the predation loop from index k down to 1
PredationScan(st, id, k) ==
    IF k < 1 THEN st
    ELSE IF k <= Len(st.organisms)
            /\ CanKill(Lookup(st.organisms, id), st.organisms[k])
         THEN AfterKill(Kill(st, id, k), id, k)
         ELSE PredationScan(st, id, k - 1)

\* mutant of potentialMates: the candidates are listed last to first
potentialMatesReversed(o, orgs) ==
    LET IsMate(other) ==
            /\ other.id # o.id
            /\ other.species = o.species
            /\ canReproduce(other)
            /\ CloserThan(o, other.x, other.y, 5000)
        found == SelectSeq(orgs, IsMate)
    IN  [k \in 1..Len(found) |-> found[Len(found) + 1 - k]]

\* potentialMates of the reproduction block
potentialMates(o, orgs) ==
    LET IsMate(other) ==
            /\ other.id # o.id
            /\ other.species = o.species
            /\ canReproduce(other)
            /\ CloserThan(o, other.x, other.y, 5000)
    IN  SelectSeq(orgs, IsMate)

\* mutant of ValidSpawn: the arena test is left out
ValidSpawnOutsideObstacles(obs, c) == ~isPointInObstacle(obs, c.x, c.y)

\* mutant of ValidSpawn: the obstacle test is left out
ValidSpawnAnywhereInArena(obs, c) ==
    /\ c.x >= 0
    /\ c.x <= CanvasWidth
    /\ c.y >= 0
    /\ c.y <= CanvasHeight

\* the validity test of the child's spawn point
ValidSpawn(obs, c) ==
    /\ ~isPointInObstacle(obs, c.x, c.y)
    /\ c.x >= 0
    /\ c.x <= CanvasWidth
    /\ c.y >= 0
    /\ c.y <= CanvasHeight

\* mutant of Push: the child is stored first (unshift)
PushFront(s, e) == <<e>> \o s

\* this.organisms.push(child)
Push(s, e) == Append(s, e)

\* mutant of Paid: the mate pays the cost and starts its cooldown too
PaidByBoth(orgs, o, mates) ==
    IF Len(mates) > 0
    THEN Store(Store(orgs, ReproduceParent(o)), ReproduceParent(mates[1]))
    ELSE Store(orgs, ReproduceParent(o))

\* the collection after organism.reproduce(mate): the writes to `this`
Paid(orgs, o, mates) == Store(orgs, ReproduceParent(o))

\* the wandering draws (Math.random() - 0.5) * 0.3 of updateAI; the wandering
\* organisms of one tick all get the same draw
Jitters == {<<0, 0>>, <<14, 0 - 15>>}

\* the draws of one Organism.reproduce call: m = (Math.random() - 0.5) of the
\* mutation in hundredths, the angle's cosine and sine in thousandths, and rv =
\* the two (Math.random() - 0.5) of the child's initial velocity in hundredths
ReproDraws ==
    { [m |-> 0 - 50, cos |-> 1000, sin |-> 0, rv |-> <<10, 0 - 10>>],
      [m |-> 49, cos |-> 0 - 1000, sin |-> 0, rv |-> <<0 - 50, 49>>] }

\* mutant of Frame: the paused flag is not tested
FrameIgnoringPause ==
    /\ pc = "idle"
    /\ prev' = Snapshot
    /\ op' = [name |-> "Frame", arg |-> << >>]
    /\ frameStart' = time
    /\ wander' = wander
    /\ mated' = mated
    /\ initiated' = initiated
    /\ previousStats' = previousStats
    /\ budget >= (speed + 1) \div 2
    /\ Len(organisms) <= MaxPopulation
    /\ pc' = "tick"
    /\ tick' = 0
    /\ UNCHANGED <<organisms, food, obstacles, particles, foodSpawnTimer, time,
                   paused, speed, stats, currentAction, i, j, cur, nextId,
                   nextFoodId, placed, budget, child, spent, tickStart, turns, preyed>>

\* update(): `if (this.paused) return`, else the tick loop starts
Frame ==
    /\ pc = "idle"
    /\ prev' = Snapshot
    /\ op' = [name |-> "Frame", arg |-> << >>]
    /\ frameStart' = time
    /\ wander' = wander
    /\ mated' = mated
    /\ initiated' = initiated
    /\ previousStats' = previousStats
    /\ IF paused
       THEN UNCHANGED <<pc, tick>>
       ELSE /\ budget >= (speed + 1) \div 2
            /\ Len(organisms) <= MaxPopulation
            /\ pc' = "tick"
            /\ tick' = 0
    /\ UNCHANGED <<organisms, food, obstacles, particles, foodSpawnTimer, time,
                   paused, speed, stats, currentAction, i, j, cur, nextId,
                   nextFoodId, placed, budget, child, spent, tickStart, turns, preyed>>

\* head of the tick loop: this.time++ and the organism loop starts at the end
TickBegin ==
    /\ pc = "tick"
    /\ TickLoopContinues(tick, speed)
    /\ prev' = Snapshot
    /\ op' = [name |-> "TickBegin", arg |-> << >>]
    /\ frameStart' = frameStart
    /\ \E draw \in Jitters : wander' = draw
    /\ mated' = mated
    /\ initiated' = initiated
    /\ previousStats' = previousStats
    /\ time' = time + 1
    /\ i' = Len(organisms)
    /\ pc' = "org"
    /\ budget' = budget - 1
    /\ tickStart' = [organisms |-> organisms, food |-> food]
    /\ turns' = << >>
    /\ preyed' = {}
    /\ UNCHANGED <<organisms, food, obstacles, particles, foodSpawnTimer, paused,
                   speed, stats, currentAction, tick, j, cur, nextId, nextFoodId,
                   placed, child, spent>>

\* head of the organism loop and organism.updateAI(this.organisms, this.food)
TurnAI ==
    /\ pc = "org"
    /\ i >= 1
    /\ prev' = Snapshot
    /\ op' = [name |-> "TurnAI", arg |-> << >>]
    /\ frameStart' = frameStart
    /\ wander' = wander
    /\ mated' = mated
    /\ initiated' = initiated
    /\ previousStats' = previousStats
    /\ organisms' = Store(organisms, updateAI(organisms[i], organisms, food, wander))
    /\ cur' = organisms[i].id
    /\ turns' = Append(turns, organisms[i].id)
    /\ pc' = "update"
    /\ UNCHANGED <<food, obstacles, particles, foodSpawnTimer, time, paused, speed,
                   stats, currentAction, tick, i, j, nextId, nextFoodId, placed,
                   budget, child, spent, tickStart, preyed>>

\* organism.update(width, height, this.obstacles); the food loop starts
TurnUpdate ==
    /\ pc = "update"
    /\ prev' = Snapshot
    /\ op' = [name |-> "TurnUpdate", arg |-> << >>]
    /\ frameStart' = frameStart
    /\ wander' = wander
    /\ mated' = mated
    /\ initiated' = initiated
    /\ previousStats' = previousStats
    /\ organisms' = Store(organisms,
                          update(Lookup(organisms, cur), CanvasWidth, CanvasHeight,
                                 obstacles))
    /\ spent' = Lookup(organisms, cur).energy - Lookup(organisms', cur).energy
    /\ j' = Len(food)
    /\ pc' = "feed"
    /\ UNCHANGED <<food, obstacles, particles, foodSpawnTimer, time, paused, speed,
                   stats, currentAction, tick, i, cur, nextId, nextFoodId, placed,
                   budget, child, tickStart, turns, preyed>>

\* one iteration of the food-consumption loop
FeedStep ==
    /\ pc = "feed"
    /\ j >= 1
    /\ prev' = Snapshot
    /\ op' = [name |-> "FeedStep", arg |-> << >>]
    /\ frameStart' = frameStart
    /\ wander' = wander
    /\ mated' = mated
    /\ initiated' = initiated
    /\ previousStats' = previousStats
    /\ LET o == Lookup(organisms, cur)
       IN  IF Eats(o, food[j])
           THEN /\ organisms' = Store(organisms, Fed(o, food[j]))
                /\ particles' = createParticleEffect(particles, "eat")
                /\ food' = Splice(food, j)
           ELSE UNCHANGED <<organisms, particles, food>>
    /\ j' = j - 1
    /\ UNCHANGED <<obstacles, foodSpawnTimer, time, paused, speed, stats,
                   currentAction, pc, tick, i, cur, nextId, nextFoodId, placed,
                   budget, child, spent, tickStart, turns, preyed>>

\* the predation block
Predation ==
    /\ pc = "feed"
    /\ j < 1
    /\ prev' = Snapshot
    /\ op' = [name |-> "Predation", arg |-> << >>]
    /\ frameStart' = frameStart
    /\ wander' = wander
    /\ mated' = mated
    /\ initiated' = initiated
    /\ previousStats' = previousStats
    /\ LET st == [organisms |-> organisms, particles |-> particles,
                  deathEvents |-> stats.deathEvents, i |-> i, killed |-> {}]
           res == IF IsPredator(Lookup(organisms, cur))
                  THEN PredationScan(st, cur, Len(organisms))
                  ELSE st
       IN  /\ organisms' = res.organisms
           /\ particles' = res.particles
           /\ stats' = [stats EXCEPT !.deathEvents = res.deathEvents]
           /\ i' = res.i
           /\ preyed' = preyed \cup res.killed
    /\ pc' = "repro"
    /\ UNCHANGED <<food, obstacles, foodSpawnTimer, time, paused, speed,
                   currentAction, tick, j, cur, nextId, nextFoodId, placed, budget, child, spent, tickStart, turns>>

\* the reproduction block; roll = Math.random() < 0.1
Reproduction ==
    /\ pc = "repro"
    /\ prev' = Snapshot
    /\ frameStart' = frameStart
    /\ wander' = wander
    /\ LET o == Lookup(organisms, cur)
           mates == potentialMates(o, organisms)
       IN  \E roll \in BOOLEAN, r \in ReproDraws :
             \* Math.random() < 0.1 is drawn only when there is no mate
             /\ op' = [name |-> "Reproduction",
                       arg |-> IF canReproduce(o) /\ Len(mates) = 0
                               THEN <<roll>> ELSE << >>]
             /\ IF canReproduce(o) /\ (Len(mates) > 0 \/ roll)
                THEN LET born == ReproduceChild(o, Len(mates) > 0,
                                                 IF Len(mates) > 0 THEN mates[1] ELSE o,
                                                 nextId, r)
                         paid == Paid(organisms, o, mates)
                     IN  /\ child' = born
                         /\ mated' = IF Len(mates) > 0
                                     THEN [parent |-> cur, mate |-> mates[1].id,
                                           time |-> time]
                                     ELSE mated
                         /\ initiated' = Initiates(initiated, cur, time)
                         /\ IF ValidSpawn(obstacles, born)
                            THEN /\ organisms' = Push(paid, born)
                                 /\ particles' = createParticleEffect(particles, "birth")
                                 /\ stats' = [stats EXCEPT !.reproductionEvents = @ + 1]
                                 /\ nextId' = nextId + 1
                            ELSE /\ organisms' = paid
                                 /\ UNCHANGED <<particles, stats, nextId>>
                ELSE /\ child' = NoChild
                     /\ UNCHANGED <<organisms, particles, stats, nextId, mated,
                                  initiated>>
    /\ pc' = "death"
    /\ UNCHANGED <<food, obstacles, foodSpawnTimer, time, paused, speed,
                   currentAction, tick, i, j, cur, nextFoodId, placed, budget, spent, tickStart, turns, preyed,
                   previousStats>>

\* the death check, and the step i-- of the organism loop
Death ==
    /\ pc = "death"
    /\ prev' = Snapshot
    /\ op' = [name |-> "Death", arg |-> << >>]
    /\ frameStart' = frameStart
    /\ wander' = wander
    /\ mated' = mated
    /\ initiated' = initiated
    /\ previousStats' = previousStats
    /\ IF isDead(Lookup(organisms, cur))
       THEN /\ particles' = createParticleEffect(particles, "death")
            /\ organisms' = Splice(organisms, i)
            /\ stats' = [stats EXCEPT !.deathEvents = @ + 1]
       ELSE UNCHANGED <<particles, organisms, stats>>
    /\ i' = i - 1
    /\ pc' = "org"
    /\ UNCHANGED <<food, obstacles, foodSpawnTimer, time, paused, speed,
                   currentAction, tick, j, cur, nextId, nextFoodId, placed, budget, child, spent, tickStart, turns, preyed>>

(***************************************************************************)
(* World.update, the end of a tick and of a frame.                         *)
(***************************************************************************)
\* the particle loop: life -= 0.02, removed at life <= 0
updateParticles(ps) ==
    LET aged == [k \in 1..Len(ps) |-> ps[k] - 1]
        Positive(life) == life > 0
    IN  SelectSeq(aged, Positive)

\* foodSpawnTimer > 80 && food.length < 100
SpawnDue(timer, fs) == timer > 80 /\ Len(fs) < 100

\* draws of spawnFood: the points drawn by each item's do-while loop (x, y in
\* [10, size - 10)) and the energies 25 + Math.random() * 15; one item finds a
\* free point at its third draw, one draws ten points inside an obstacle
FoodDraws ==
    { << [cands |-> << <<9000, 12000>> >>, energy |-> 2500],
         [cands |-> << <<13000, 7000>>, <<20000, 21000>>, <<25000, 15000>> >>,
          energy |-> 3999] >>,
      << [cands |-> << <<13000, 7000>>, <<16000, 10000>> >>, energy |-> 3100],
         [cands |-> << <<2000, 2000>> >>, energy |-> 2600] >> }

\* draws of the spawnFood(40) of reset(): items at a free first draw, at a free
\* third draw, and inside an obstacle after ten draws, in turn
SeedFoodDraws ==
    << [cands |-> << <<9000, 12000>> >>, energy |-> 2500],
       [cands |-> << <<13000, 7000>>, <<20000, 21000>>, <<25000, 15000>> >>,
        energy |-> 3999],
       [cands |-> << <<13000, 7000>>, <<16000, 10000>> >>, energy |-> 3100] >>

\* the particle loop and the periodic food spawn; the tick loop steps
TickEnd ==
    /\ pc = "org"
    /\ i < 1
    /\ prev' = Snapshot
    /\ op' = [name |-> "TickEnd", arg |-> << >>]
    /\ frameStart' = frameStart
    /\ wander' = wander
    /\ mated' = mated
    /\ initiated' = initiated
    /\ previousStats' = previousStats
    /\ particles' = updateParticles(particles)
    /\ IF SpawnDue(foodSpawnTimer + 1, food)
       THEN \E spawnCount \in 1..3, draws \in FoodDraws :
              /\ food' = spawnFood(food, nextFoodId, spawnCount, draws)
              /\ nextFoodId' = nextFoodId + spawnCount
              /\ foodSpawnTimer' = 0
       ELSE /\ foodSpawnTimer' = foodSpawnTimer + 1
            /\ UNCHANGED <<food, nextFoodId>>
    /\ tick' = tick + 1
    /\ pc' = "tick"
    /\ UNCHANGED <<organisms, obstacles, time, paused, speed, stats, currentAction,
                   i, j, cur, nextId, placed, budget, child, spent, tickStart, turns,
                   preyed>>

\* after the tick loop: this.updateStats() and
\* this.enhancedStatsManager.updateEnhancedStats(...)
FrameEnd ==
    /\ pc = "tick"
    /\ ~TickLoopContinues(tick, speed)
    /\ prev' = Snapshot
    /\ op' = [name |-> "FrameEnd", arg |-> << >>]
    /\ frameStart' = frameStart
    /\ wander' = wander
    /\ mated' = mated
    /\ initiated' = initiated
    /\ stats' = updateStats(stats, organisms, food)
    /\ previousStats' = updateEnhancedStats(previousStats,
                                            updateStats(stats, organisms, food))
    /\ pc' = "idle"
    /\ UNCHANGED <<organisms, food, obstacles, particles, foodSpawnTimer, time,
                   paused, speed, currentAction, tick, i, j, cur, nextId,
                   nextFoodId, placed, budget, child, spent, tickStart, turns, preyed>>

(***************************************************************************)
(* Commands: canvas clicks, keys, UI buttons.  The program is single-      *)
(* threaded, so a command handler runs between two frames.                 *)
(***************************************************************************)
MkDNA(speed_, efficiency, aggression, size, threshold, lifespan, socialness) ==
    [speed |-> speed_, efficiency |-> efficiency, aggression |-> aggression,
     size |-> size, reproductionThreshold |-> threshold, lifespan |-> lifespan,
     socialness |-> socialness]

\* draws of generateRandomDNA and of the constructor's velocity
FounderDNAs ==
    { [dna |-> MkDNA(50, 50, 0, 80, 6000, 1500, 0), rv |-> <<0 - 50, 0 - 50>>],
      [dna |-> MkDNA(149, 149, 99, 119, 9999, 4499, 99), rv |-> <<49, 49>>] }

\* draws of setupInitialPopulation: positions in [20, size - 20), the second
\* inside an obstacle
FounderDraws ==
    { << [x |-> 2000, y |-> 2000, dna |-> MkDNA(50, 50, 0, 80, 6000, 1500, 0),
          rv |-> <<0 - 50, 0 - 50>>],
         [x |-> 13000, y |-> 7000,
          dna |-> MkDNA(149, 149, 99, 119, 9999, 4499, 99), rv |-> <<49, 49>>],
         [x |-> 27999, y |-> 27999,
          dna |-> MkDNA(100, 100, 55, 100, 8000, 3000, 60), rv |-> <<0, 10>>] >> }

\* click points (e.clientX - rect.left, e.clientY - rect.top): free, inside an
\* obstacle, and right of the arena (the canvas element laid out wider than
\* canvas.width)
ClickPoints == {<<10000, 15000>>, <<13000, 7000>>, <<30500, 10000>>}

\* mutant of Click: the handler ends with this.updateStats()
ClickRefreshingStats(x, y) ==
    /\ pc = "idle"
    /\ budget >= 1
    /\ budget' = budget - 1
    /\ prev' = Snapshot
    /\ op' = [name |-> "Click", arg |-> <<x, y>>]
    /\ frameStart' = frameStart
    /\ wander' = wander
    /\ mated' = mated
    /\ initiated' = initiated
    /\ previousStats' = previousStats
    /\ IF ~isPointInObstacle(obstacles, x, y)
       THEN IF currentAction = "food"
            THEN /\ \E energy \in {3999} :
                       food' = Append(food, NewFood(nextFoodId, x, y, energy))
                 /\ nextFoodId' = nextFoodId + 1
                 /\ particles' = createParticleEffect(particles, "food_spawn")
                 /\ UNCHANGED <<organisms, nextId, placed>>
            ELSE /\ \E d \in FounderDNAs :
                       organisms' = Append(organisms,
                                           NewOrganism(nextId, x, y, currentAction,
                                                       d.dna, d.rv))
                 /\ nextId' = nextId + 1
                 /\ placed' = placed + 1
                 /\ particles' = createParticleEffect(particles, "birth")
                 /\ UNCHANGED <<food, nextFoodId>>
       ELSE UNCHANGED <<organisms, food, particles, nextId, nextFoodId, placed>>
    /\ stats' = updateStats(stats, organisms', food')
    /\ UNCHANGED <<obstacles, foodSpawnTimer, time, paused, speed,
                   currentAction, pc, tick, i, j, cur, child, spent, tickStart, turns,
                   preyed>>

\* the canvas click handler
Click(x, y) ==
    /\ pc = "idle"
    /\ budget >= 1
    /\ budget' = budget - 1
    /\ prev' = Snapshot
    /\ op' = [name |-> "Click", arg |-> <<x, y>>]
    /\ frameStart' = frameStart
    /\ wander' = wander
    /\ mated' = mated
    /\ initiated' = initiated
    /\ previousStats' = previousStats
    /\ IF ~isPointInObstacle(obstacles, x, y)
       THEN IF currentAction = "food"
            THEN /\ \E energy \in {3999} :
                       food' = Append(food, NewFood(nextFoodId, x, y, energy))
                 /\ nextFoodId' = nextFoodId + 1
                 /\ particles' = createParticleEffect(particles, "food_spawn")
                 /\ UNCHANGED <<organisms, nextId, placed>>
            ELSE /\ \E d \in FounderDNAs :
                       organisms' = Append(organisms,
                                           NewOrganism(nextId, x, y, currentAction,
                                                       d.dna, d.rv))
                 /\ nextId' = nextId + 1
                 /\ placed' = placed + 1
                 /\ particles' = createParticleEffect(particles, "birth")
                 /\ UNCHANGED <<food, nextFoodId>>
       ELSE UNCHANGED <<organisms, food, particles, nextId, nextFoodId, placed>>
    /\ UNCHANGED <<obstacles, foodSpawnTimer, time, paused, speed, stats,
                   currentAction, pc, tick, i, j, cur, child, spent, tickStart, turns,
                   preyed>>

\* the keydown handler
KeyDown(key) ==
    /\ pc = "idle"
    /\ budget >= 1
    /\ budget' = budget - 1
    /\ prev' = Snapshot
    /\ op' = [name |-> "KeyDown", arg |-> key]
    /\ frameStart' = frameStart
    /\ wander' = wander
    /\ mated' = mated
    /\ initiated' = initiated
    /\ previousStats' = previousStats
    /\ paused' = IF key = " " THEN ~paused ELSE paused
    /\ speed' = CASE key = "1" -> 1
                  [] key = "2" -> 2
                  [] key = "3" -> 4
                  [] key = "4" -> 8
                  [] OTHER -> speed
    /\ currentAction' = CASE key = "f" -> "food"
                          [] key = "h" -> "herbivore"
                          [] key = "c" -> "carnivore"
                          [] key = "o" -> "omnivore"
                          [] OTHER -> currentAction
    /\ UNCHANGED <<organisms, food, obstacles, particles, foodSpawnTimer, time,
                   stats, pc, tick, i, j, cur, nextId, nextFoodId, placed, child, spent, tickStart, turns, preyed>>

\* mutant of Reset: the event counters are kept
ResetKeepingCounters ==
    /\ pc = "idle"
    /\ budget >= 1
    /\ budget' = budget - 1
    /\ prev' = Snapshot
    /\ op' = [name |-> "Reset", arg |-> << >>]
    /\ frameStart' = frameStart
    /\ wander' = wander
    /\ mated' = mated
    /\ initiated' = << >>
    /\ previousStats' = previousStats
    /\ \E draws \in FounderDraws :
           organisms' = setupInitialPopulation(<< >>, nextId, draws)
    /\ nextId' = nextId + 50
    /\ food' = spawnFood(<< >>, nextFoodId, 40, SeedFoodDraws)
    /\ nextFoodId' = nextFoodId + 40
    /\ particles' = << >>
    /\ time' = 0
    /\ placed' = 0
    /\ UNCHANGED <<obstacles, foodSpawnTimer, paused, speed, currentAction, pc,
                   tick, i, j, cur, child, spent, tickStart, turns, preyed, stats>>

\* mutant of Reset: the obstacles are created again, as in the constructor
ResetCreatingObstacles ==
    /\ pc = "idle"
    /\ budget >= 1
    /\ budget' = budget - 1
    /\ prev' = Snapshot
    /\ op' = [name |-> "Reset", arg |-> << >>]
    /\ frameStart' = frameStart
    /\ wander' = wander
    /\ mated' = mated
    /\ initiated' = << >>
    /\ previousStats' = previousStats
    /\ \E draws \in FounderDraws :
           organisms' = setupInitialPopulation(<< >>, nextId, draws)
    /\ nextId' = nextId + 50
    /\ food' = spawnFood(<< >>, nextFoodId, 40, SeedFoodDraws)
    /\ nextFoodId' = nextFoodId + 40
    /\ particles' = << >>
    /\ stats' = [stats EXCEPT !.reproductionEvents = 0, !.deathEvents = 0]
    /\ time' = 0
    /\ placed' = 0
    /\ obstacles' = obstacles \o Obstacles
    /\ UNCHANGED <<foodSpawnTimer, paused, speed, currentAction, pc,
                   tick, i, j, cur, child, spent, tickStart, turns, preyed>>

\* World.reset
Reset ==
    /\ pc = "idle"
    /\ budget >= 1
    /\ budget' = budget - 1
    /\ prev' = Snapshot
    /\ op' = [name |-> "Reset", arg |-> << >>]
    /\ frameStart' = frameStart
    /\ wander' = wander
    /\ mated' = mated
    /\ initiated' = << >>
    /\ previousStats' = previousStats
    /\ \E draws \in FounderDraws :
           organisms' = setupInitialPopulation(<< >>, nextId, draws)
    /\ nextId' = nextId + 50
    /\ food' = spawnFood(<< >>, nextFoodId, 40, SeedFoodDraws)
    /\ nextFoodId' = nextFoodId + 40
    /\ particles' = << >>
    /\ stats' = [stats EXCEPT !.reproductionEvents = 0, !.deathEvents = 0]
    /\ time' = 0
    /\ placed' = 0
    /\ UNCHANGED <<obstacles, foodSpawnTimer, paused, speed, currentAction, pc,
                   tick, i, j, cur, child, spent, tickStart, turns, preyed>>

\* mutant of ApplySettings: the top-up is not limited to 20 items
ApplySettingsUncapped(maxFood) ==
    /\ pc = "idle"
    /\ budget >= 1
    /\ budget' = budget - 1
    /\ prev' = Snapshot
    /\ op' = [name |-> "ApplySettings", arg |-> maxFood]
    /\ frameStart' = frameStart
    /\ wander' = wander
    /\ mated' = mated
    /\ initiated' = initiated
    /\ previousStats' = previousStats
    /\ LET count == maxFood - Len(food)
       IN  /\ \E draws \in FoodDraws :
                 food' = spawnFood(food, nextFoodId, count, draws)
           /\ nextFoodId' = nextFoodId + Max(count, 0)
    /\ UNCHANGED <<organisms, obstacles, particles, foodSpawnTimer, time, paused,
                   speed, stats, currentAction, pc, tick, i, j, cur, nextId, placed,
                   child, spent, tickStart, turns, preyed>>

\* World.applySettings with settings.maxFood = maxFood
ApplySettings(maxFood) ==
    /\ pc = "idle"
    /\ budget >= 1
    /\ budget' = budget - 1
    /\ prev' = Snapshot
    /\ op' = [name |-> "ApplySettings", arg |-> maxFood]
    /\ frameStart' = frameStart
    /\ wander' = wander
    /\ mated' = mated
    /\ initiated' = initiated
    /\ previousStats' = previousStats
    /\ LET count == Min(maxFood - Len(food), 20)
       IN  /\ \E draws \in FoodDraws :
                 food' = spawnFood(food, nextFoodId, count, draws)
           /\ nextFoodId' = nextFoodId + Max(count, 0)
    /\ UNCHANGED <<organisms, obstacles, particles, foodSpawnTimer, time, paused,
                   speed, stats, currentAction, pc, tick, i, j, cur, nextId, placed,
                   child, spent, tickStart, turns, preyed>>

(***************************************************************************)
(* Initial worlds: small worlds in the middle of a run.                    *)
(***************************************************************************)
MkOrganism(id, x, y, species, dna, energy, age, cooldown) ==
    [id |-> id, x |-> x, y |-> y, dx |-> 0, dy |-> 0, energy |-> energy,
     maxEnergy |-> 8000 + dna.size * 40, age |-> age, dna |-> dna,
     species |-> species, target |-> NoTarget, reproductionCooldown |-> cooldown]

\* the organism s[k] with identity k, moved by (k - 1) * 3 pixels along x
Placed(s) ==
    [k \in 1..Len(s) |-> [s[k] EXCEPT !.id = k, !.x = @ + (k - 1) * 300]]

SmallDNA(aggression) == MkDNA(100, 100, aggression, 50, 6000, 3000, 20)
MediumDNA(aggression) == MkDNA(100, 100, aggression, 100, 8000, 3000, 60)
LargeDNA(aggression) == MkDNA(100, 50, aggression, 150, 8000, 3000, 20)

\* feeding: one organism of energy 80 / 100 on a food item of energy 30, with or
\* without a second item two pixels away
FeedingWorlds ==
    { [organisms |-> Placed(<<MkOrganism(0, 10000, 10000, sp, SmallDNA(30), e, 10, 0)>>),
       food |-> IF two
                THEN <<NewFood(1, 10000, 10000, 3000), NewFood(2, 10200, 10000, 2500)>>
                ELSE <<NewFood(1, 10000, 10000, 3000)>>,
       foodSpawnTimer |-> IF two \/ sp = "omnivore" THEN 80 ELSE 0, speed |-> 2] :
        sp \in Species, two \in BOOLEAN, e \in {8000, 6000} }

Predators ==
    { MkOrganism(0, 10000, 10000, "carnivore", MediumDNA(30), 5000, 50, 0),
      MkOrganism(0, 10000, 10000, "omnivore", MediumDNA(55), 5000, 50, 0),
      MkOrganism(0, 10000, 10000, "omnivore", MediumDNA(60), 5000, 50, 0),
      MkOrganism(0, 10000, 10000, "omnivore", MediumDNA(61), 5000, 50, 0),
      MkOrganism(0, 10000, 10000, "herbivore", MediumDNA(90), 5000, 50, 0) }

WeakHerbivore == MkOrganism(0, 10000, 10000, "herbivore", SmallDNA(30), 2000, 50, 0)

Preys ==
    { WeakHerbivore,
      MkOrganism(0, 10000, 10000, "herbivore", SmallDNA(30), 9000, 50, 0),
      MkOrganism(0, 10000, 10000, "omnivore", SmallDNA(30), 2000, 50, 0),
      MkOrganism(0, 10000, 10000, "omnivore", LargeDNA(30), 4000, 50, 0),
      MkOrganism(0, 10000, 10000, "carnivore", SmallDNA(30), 2000, 50, 0) }

\* predation: a predator and its prey three pixels apart, in either order, or
\* the predator between two prey
PredationWorlds ==
    { [organisms |-> Placed(s), food |-> <<NewFood(1, 9000, 12000, 2500)>>,
       foodSpawnTimer |-> 0, speed |-> 4] :
        s \in UNION { {<<p, q>>, <<q, p>>} : p \in Predators, q \in Preys }
              \cup { <<q, p, WeakHerbivore>> :
                        p \in {pp \in Predators : pp.dna.aggression \in {30, 61}},
                        q \in Preys }
              \cup { <<MkOrganism(0, 10000, 10000, "herbivore", SmallDNA(30), 5000, 50, 0),
                       MkOrganism(0, 10000, 10000, "carnivore", MediumDNA(30), 11500, 50, 0)>> } }

\* reproduction: an organism about to come of age, alone or with a mate (mature
\* or not), in the open, beside an obstacle, or at the arena's edge
ReproductionWorlds ==
    { [organisms |->
          Placed(<<MkOrganism(0, w[1], w[2], "herbivore", SmallDNA(30), 9000, w[4], 0)>>
                 \o <<MkOrganism(0, w[1], w[2], "herbivore", SmallDNA(30), 9000, w[3], 0)>>),
       food |-> << >>, foodSpawnTimer |-> 0, speed |-> 2] :
        w \in { <<10000, 10000, 200, 250>>, <<10700, 8000, 200, 250>>,
                <<600, 10000, 200, 250>>, <<10000, 10000, 199, 250>>,
                <<10000, 10000, 200, 100>>, <<10700, 8000, 199, 100>>,
                <<10000, 10000, 250, 200>> } }
    \cup
    { [organisms |->
          Placed(<<MkOrganism(0, 10000, 10000, "carnivore", SmallDNA(30), 9000, 250, 0),
                   MkOrganism(0, 10000, 10000, "carnivore", SmallDNA(30), 9000, 200, 0)>>),
       food |-> << >>, foodSpawnTimer |-> 0, speed |-> 4] }
    \cup
    \* a lone organism about to come of age, or of age 600 with one or two ticks
    \* of its cooldown left
    { [organisms |->
          Placed(<<MkOrganism(0, 10000, 10000, "omnivore", MediumDNA(30), 11000,
                              w[1], w[2])>>),
       food |-> << >>, foodSpawnTimer |-> 0, speed |-> 2] :
        w \in { <<199, 0>>, <<200, 0>>, <<600, 1>>, <<600, 2>> } }
    \cup
    \* two mature mates of different traits, the first in order being the farther
    { [organisms |->
          Placed(<<MkOrganism(0, 10000, 10000, "herbivore", MediumDNA(30), 9000, 250, 0),
                   MkOrganism(0, 10000, 10000, "herbivore", SmallDNA(30), 9000, 250, 0),
                   MkOrganism(0, 10000, 10000, "herbivore", SmallDNA(30), 9000, 250, 0)>>),
       food |-> << >>, foodSpawnTimer |-> 0, speed |-> 4] }

\* a well-fed carnivore 14 pixels right of a herbivore old enough to reproduce,
\* the carnivore taking its turn after the herbivore
NurseryWorlds ==
    { [organisms |->
          <<MkOrganism(1, 11700, 10000, "carnivore", MediumDNA(30), 11000, 50, 0),
            MkOrganism(2, 10300, 10000, "herbivore", SmallDNA(30), 9000, 250, 0)>>,
       food |-> << >>, foodSpawnTimer |-> 0, speed |-> 2] }

\* a lone grown herbivore whose energy is at or just above its reproduction
\* threshold once the metabolism of the tick is paid
ThresholdWorlds ==
    { [organisms |->
          <<MkOrganism(1, 10000, 10000, "herbivore", SmallDNA(30), e, 250, 0)>>,
       food |-> << >>, foodSpawnTimer |-> 0, speed |-> 2] : e \in {6011, 6012} }

\* a carnivore in the last tick of its lifespan, strong enough to kill and to
\* reproduce
OldCarnivore == MkOrganism(0, 10000, 10000, "carnivore", SmallDNA(30), 9000, 3000, 0)

\* death: an organism about to starve or to outlive its lifespan, beside a
\* healthy one, in either order; or an old predator beside its prey, in either
\* order
DeathWorlds ==
    { [organisms |-> Placed(s), food |-> <<NewFood(1, 10000, 10000, 3000)>>,
       foodSpawnTimer |-> 0, speed |-> 4] :
        s \in UNION { {<<d, h>>, <<h, d>>, <<d>>, <<WeakHerbivore, h, d>>} :
                        d \in { MkOrganism(0, 10000, 10000, "herbivore", SmallDNA(30), 8, 50, 0),
                                MkOrganism(0, 10000, 10000, "herbivore", SmallDNA(30), 9000, 3000, 0),
                                MkOrganism(0, 10000, 10000, "carnivore", SmallDNA(30), 10, 2999, 5) },
                        h \in { MkOrganism(0, 10000, 10000, "carnivore", MediumDNA(30), 9000, 50, 0) } }
              \cup { <<WeakHerbivore, OldCarnivore>>, <<OldCarnivore, WeakHerbivore>> } }

\* a row of n food items clear of the obstacles
FoodRow(n) == [k \in 1..n |-> NewFood(k, 1000 + 200 * k, 2000, 2500)]

\* periodic spawning: a world whose organisms have all died, with the food
\* count at or just below the cap and the timer at or just below the threshold
SpawnWorlds ==
    { [organisms |-> << >>, food |-> FoodRow(w[1]), foodSpawnTimer |-> w[2],
       speed |-> 2] :
        w \in { <<99, 80>>, <<100, 80>>, <<98, 79>> } }

\* an organism of radius 5 moving at 3 pixels per tick
Moving(o, dx, dy) == [o EXCEPT !.dx = dx, !.dy = dy]

\* obstacles: an organism 5.5 pixels left of the first obstacle, heading for it;
\* walls: an organism heading out of the arena on the left, or at the
\* bottom-right corner
ObstacleWorlds ==
    { [organisms |->
          Placed(<<Moving(MkOrganism(0, w[1], w[2], "herbivore", SmallDNA(30),
                                     7000, 50, 0), w[3], w[4])>>),
       food |-> << >>, foodSpawnTimer |-> 0, speed |-> 2] :
        w \in { <<11450, 8000, 300, 0>>, <<700, 15000, 0 - 300, 0>>,
                <<29400, 29600, 200, 200>> } }

\* an organism that acquired the target pt in an earlier tick
Targeting(o, pt) == [o EXCEPT !.target = pt]

\* targets: a hungry aggressive omnivore with food 10 pixels away and a prey 20
\* pixels away; a lone carnivore, hungry or not, with a target 8 or 4 pixels away
TargetWorlds ==
    { [organisms |->
          Placed(<<MkOrganism(0, 10000, 10000, "omnivore", MediumDNA(55), 5000, 50, 0),
                   MkOrganism(0, 11700, 10000, "herbivore", SmallDNA(30), 2000, 50, 0)>>),
       food |-> <<NewFood(1, 10000, 11000, 2500)>>, foodSpawnTimer |-> 0,
       speed |-> 2] }
    \cup
    { [organisms |->
          Placed(<<Targeting(MkOrganism(0, 10000, 10000, "carnivore", MediumDNA(30),
                                        e, 50, 0), <<10000 + d, 10000>>)>>),
       food |-> <<NewFood(1, 9000, 12000, 2500)>>, foodSpawnTimer |-> 0,
       speed |-> 2] : e \in {5000, 11000}, d \in {400, 800} }

\* placement: a starving herbivore, the carnivore placement mode selected
PlacementWorlds ==
    { [organisms |->
          Placed(<<MkOrganism(0, 10000, 10000, "herbivore", SmallDNA(30), 8, 50, 0)>>),
       food |-> << >>, foodSpawnTimer |-> 0, speed |-> 2,
       currentAction |-> "carnivore"] }

InitialWorlds ==
    FeedingWorlds \cup PredationWorlds \cup ReproductionWorlds \cup DeathWorlds
        \cup SpawnWorlds \cup ObstacleWorlds \cup TargetWorlds
        \cup PlacementWorlds \cup NurseryWorlds \cup ThresholdWorlds

\* the placement mode of an initial world: "food", the UI's default, unless the
\* world names another
ModeOf(w) == IF "currentAction" \in DOMAIN w THEN w.currentAction ELSE "food"

\* previousStats of a world in the middle of a run: the snapshot of the frame
\* that has just ended
PanelOf(w) ==
    [totalPopulation |-> Len(w.organisms), foodCount |-> Len(w.food),
     populationTrend |-> "stable", foodTrend |-> "stable"]

\* the world w with the statistics panel in state ps
Start(w, ps) ==
        /\ previousStats = ps
        /\ organisms = w.organisms
        /\ food = w.food
        /\ obstacles = Obstacles
        /\ particles = << >>
        /\ foodSpawnTimer = w.foodSpawnTimer
        /\ time = 300
        /\ paused = FALSE
        /\ speed = w.speed
        /\ stats = updateStats([herbivoreCount |-> 0, carnivoreCount |-> 0,
                                omnivoreCount |-> 0, totalPopulation |-> 0,
                                averageAge |-> 0, averageEnergy |-> 0,
                                foodCount |-> 0, reproductionEvents |-> 0,
                                deathEvents |-> 50 - Len(w.organisms)],
                               w.organisms, w.food)
        /\ currentAction = ModeOf(w)
        /\ pc = "idle"
        /\ tick = 0
        /\ i = 0
        /\ j = 0
        /\ cur = 0
        /\ nextId = Len(w.organisms) + 1
        /\ nextFoodId = Len(w.food) + 1
        /\ placed = 0
        /\ budget = MaxSteps
        /\ child = NoChild
        /\ spent = 0
        /\ tickStart = [organisms |-> << >>, food |-> << >>]
        /\ turns = << >>
        /\ preyed = {}
        /\ op = [name |-> "Init", arg |-> << >>]
        /\ frameStart = 300
        /\ wander = <<0, 0>>
        /\ mated = NoMate
        /\ initiated = InitiatedBy(w.organisms, 300)
        /\ prev = [pc |-> "init", organisms |-> w.organisms, food |-> w.food,
                   obstacles |-> Obstacles, particles |-> << >>,
                   foodSpawnTimer |-> w.foodSpawnTimer, time |-> 300,
                   paused |-> FALSE, speed |-> w.speed, stats |-> << >>,
                   currentAction |-> ModeOf(w), i |-> 0, j |-> 0, cur |-> 0,
                   previousStats |-> ps]

Init == \E w \in InitialWorlds : Start(w, PanelOf(w))

Next ==
    \/ Frame
    \/ TickBegin
    \/ TurnAI
    \/ TurnUpdate
    \/ FeedStep
    \/ Predation
    \/ Reproduction
    \/ Death
    \/ TickEnd
    \/ FrameEnd
    \/ \E pt \in ClickPoints : Click(pt[1], pt[2])
    \/ \E key \in {" ", "1", "2", "3", "f", "h", "c"} : KeyDown(key)
    \/ Reset
    \/ \E maxFood \in {3, 100} : ApplySettings(maxFood)

Spec == Init /\ [][Next]_vars

(***************************************************************************)
(* The statistics panel alone: updateEnhancedStats called with arbitrary   *)
(* counts, from the manager's constructed state (previousStats = null).    *)
(***************************************************************************)
\* largest count passed to the panel
MaxCount == 21

\* a world without organisms or food; this specification never runs a frame
EmptyWorld == [organisms |-> << >>, food |-> << >>, foodSpawnTimer |-> 0, speed |-> 2]

TrendInit == Start(EmptyWorld, Null)

\* updateEnhancedStats(organisms, food, world) with world.stats holding the
\* given counts
UpdateEnhancedStats(population, foodCount) ==
    /\ prev' = Snapshot
    /\ op' = [name |-> "updateEnhancedStats", arg |-> <<population, foodCount>>]
    /\ previousStats' =
           updateEnhancedStats(previousStats,
                               [totalPopulation |-> population, foodCount |-> foodCount])
    /\ UNCHANGED <<organisms, food, obstacles, particles, foodSpawnTimer, time,
                   paused, speed, stats, currentAction, pc, tick, i, j, cur,
                   nextId, nextFoodId, placed, budget, child, spent, tickStart,
                   turns, preyed, frameStart, wander, mated, initiated>>

TrendNext ==
    \E population \in 0..MaxCount, foodCount \in {0, 1} :
        UpdateEnhancedStats(population, foodCount)

TrendSpec == TrendInit /\ [][TrendNext]_vars

(***************************************************************************)
(* Which step led to the current state, read from the history variable.    *)
(***************************************************************************)
AfterTurnUpdate == prev.pc = "update"
AfterFeedStep == prev.pc = "feed" /\ pc = "feed"
AfterPredation == prev.pc = "feed" /\ pc = "repro"
AfterReproduction == prev.pc = "repro"
AfterDeath == prev.pc = "death"
AfterTickEnd == prev.pc = "org" /\ pc = "tick"
\* the organism loop of the current tick has visited every index
OrganismLoopDone == pc = "org" /\ i < 1

Occurrences(s, v) == Cardinality({k \in 1..Len(s) : s[k] = v})

\* organisms removed from the collection by the last step
Removed == Ids(prev.organisms) \ Ids(organisms)
\* organisms added to the collection by the last step
Added == Ids(organisms) \ Ids(prev.organisms)

(***************************************************************************)
(* C1: in every logical tick each organism that was in the collection when *)
(* the tick started gets at most one turn, and exactly one unless a        *)
(* predator removed it; this holds whatever kills, deaths and births take  *)
(* place in the tick.                                                      *)
(***************************************************************************)
C1_ExactlyOneTurn ==
    /\ \A id \in Ids(tickStart.organisms) : Occurrences(turns, id) <= 1
    /\ OrganismLoopDone =>
           \A id \in Ids(tickStart.organisms) :
               Occurrences(turns, id) = 0 => id \in preyed

\* a tick in which a predator killed a prey stored before it, another organism
\* survived its turn after that, and the loop ran to its end
C1_Witness ==
    /\ OrganismLoopDone
    /\ preyed # {}
    /\ Len(turns) >= 2
    /\ \E id \in Ids(tickStart.organisms) : Occurrences(turns, id) = 0

(***************************************************************************)
(* C2: at the end of every logical tick no organism in the collection has  *)
(* energy <= 0 or age > dna.lifespan.                                      *)
(***************************************************************************)
C2_NoDeadAtTickEnd ==
    (OrganismLoopDone \/ pc \in {"tick", "idle"}) =>
        \A k \in 1..Len(organisms) :
            /\ organisms[k].energy > 0
            /\ organisms[k].age <= organisms[k].dna.lifespan

\* a tick has ended in which the death check removed an organism that reached
\* its lifespan
C2_Witness ==
    /\ AfterTickEnd
    /\ (Ids(tickStart.organisms) \ Ids(organisms)) \ preyed # {}
    /\ \E k \in 1..Len(tickStart.organisms) :
           /\ tickStart.organisms[k].id \notin Ids(organisms)
           /\ tickStart.organisms[k].id \notin preyed
           /\ tickStart.organisms[k].age = tickStart.organisms[k].dna.lifespan

(***************************************************************************)
(* C3: a step of a tick raises stats.deathEvents by exactly the number of  *)
(* organisms it removes from the collection, and a command leaves it       *)
(* unchanged unless it is reset(), which zeroes it.                        *)
(***************************************************************************)
C3_DeathEventsCountRemovals ==
    /\ prev.pc \notin {"init", "idle"} =>
           stats.deathEvents - prev.stats.deathEvents = Cardinality(Removed)
    /\ prev.pc = "idle" =>
           \/ stats.deathEvents = prev.stats.deathEvents
           \/ stats.deathEvents = 0 /\ time = 0

\* a tick in which one organism was removed by a predator and another by the
\* death check, the counter being two higher than when the tick began
C3_Witness ==
    /\ AfterTickEnd
    /\ preyed # {}
    /\ (Ids(tickStart.organisms) \ Ids(organisms)) \ preyed # {}
    /\ Cardinality(Ids(tickStart.organisms) \ Ids(organisms)) = 2

(***************************************************************************)
(* C4: one iteration of the food loop: a non-carnivore colliding with the  *)
(* food item gets energy min(energy + food.energy, maxEnergy) and exactly  *)
(* that item leaves the food list; otherwise (no collision, or a           *)
(* carnivore) neither the organisms nor the food list change.              *)
(***************************************************************************)
C4_Feeding ==
    AfterFeedStep =>
        LET before == Lookup(prev.organisms, cur)
            f == prev.food[prev.j]
        IN  IF isCollidingWith(before, f.x, f.y, f.radius)
               /\ before.species # "carnivore"
            THEN /\ Lookup(organisms, cur).energy
                        = Min(before.energy + f.energy, before.maxEnergy)
                 /\ Ids(food) = Ids(prev.food) \ {f.id}
                 /\ Len(food) = Len(prev.food) - 1
                 /\ organisms = Store(prev.organisms,
                                      [before EXCEPT !.energy = Lookup(organisms, cur).energy])
            ELSE organisms = prev.organisms /\ food = prev.food

\* a herbivore or omnivore has just eaten an item that would have taken it
\* above maxEnergy
C4_Witness ==
    /\ AfterFeedStep
    /\ Len(food) < Len(prev.food)
    /\ Lookup(prev.organisms, cur).energy + prev.food[prev.j].energy
           > Lookup(prev.organisms, cur).maxEnergy
    /\ Lookup(organisms, cur).energy = Lookup(organisms, cur).maxEnergy

(***************************************************************************)
(* C5: a lone herbivore with energy 80 and maxEnergy 100 starts a tick on  *)
(* a food item of energy 30, the only one.  The metabolic cost is deducted *)
(* first and the capped feeding gain is applied after it, so when the tick *)
(* has ended the herbivore's energy is min(80 - cost + 30, 100) = 100, and *)
(* the item is gone: the food list is empty unless the periodic spawn of   *)
(* that tick added new items.                                              *)
(***************************************************************************)
C5_Scenario ==
    /\ Len(tickStart.organisms) = 1
    /\ Len(tickStart.food) = 1
    /\ tickStart.organisms[1].species = "herbivore"
    /\ tickStart.organisms[1].energy = 8000
    /\ tickStart.organisms[1].maxEnergy = 10000
    /\ tickStart.food[1].energy = 3000
    /\ isCollidingWith(tickStart.organisms[1], tickStart.food[1].x,
                       tickStart.food[1].y, tickStart.food[1].radius)
    /\ tickStart.organisms[1].id \in Ids(organisms)

C5_FeedingAfterMetabolism ==
    (AfterTickEnd /\ C5_Scenario) =>
        LET h == Lookup(organisms, tickStart.organisms[1].id)
        IN  /\ spent > 0
            /\ h.energy = Min(8000 - spent + 3000, 10000)
            /\ h.energy = 10000
            /\ tickStart.food[1].id \notin Ids(food)
            /\ foodSpawnTimer # 0 => food = << >>

\* the scenario's tick has ended: the herbivore paid a positive metabolic cost
\* and stands at maxEnergy, and the food list is empty
C5_Witness ==
    /\ AfterTickEnd
    /\ C5_Scenario
    /\ spent > 0
    /\ Lookup(organisms, tickStart.organisms[1].id).energy = 10000
    /\ food = << >>

\* C5 as stated: after the tick the herbivore's energy is 100 minus the tick's
\* metabolic cost, and the food list is empty
C5_Original ==
    (AfterTickEnd /\ C5_Scenario) =>
        /\ Lookup(organisms, tickStart.organisms[1].id).energy = 10000 - spent
        /\ food = << >>

(***************************************************************************)
(* C6: a kill raises the predator's energy by exactly                      *)
(* min(0.7 * prey.energy, maxEnergy - energy), removes the prey and raises *)
(* stats.deathEvents by exactly 1; the gain is never negative and the      *)
(* predator does not end above maxEnergy, because no organism's energy     *)
(* ever exceeds its maxEnergy.                                             *)
(***************************************************************************)
C6_KillGain ==
    /\ \A k \in 1..Len(organisms) : organisms[k].energy <= organisms[k].maxEnergy
    /\ AfterPredation =>
           \A pid \in Removed :
               LET prey == Lookup(prev.organisms, pid)
                   before == Lookup(prev.organisms, cur)
                   after == Lookup(organisms, cur)
                   gain == after.energy - before.energy
               IN  /\ gain = Min((prey.energy * 7) \div 10,
                                 before.maxEnergy - before.energy)
                   /\ gain >= 0
                   /\ after.energy <= after.maxEnergy
                   /\ Len(organisms) = Len(prev.organisms) - 1
                   /\ stats.deathEvents = prev.stats.deathEvents + 1

\* a kill in which the cap binds: 0.7 of the prey's energy was more than the
\* room the predator had left, and the predator stands at maxEnergy
C6_Witness ==
    /\ AfterPredation
    /\ \E pid \in Removed :
           LET prey == Lookup(prev.organisms, pid)
               before == Lookup(prev.organisms, cur)
           IN  (prey.energy * 7) \div 10 > before.maxEnergy - before.energy
    /\ Lookup(organisms, cur).energy = Lookup(organisms, cur).maxEnergy

(***************************************************************************)
(* C7: the predation step removes an organism only if the killer is a      *)
(* carnivore or an omnivore with aggression > 0.6, killer and prey are     *)
(* distinct and collide (centre distance < killer radius + 3, hence also   *)
(* < killer radius + prey radius), the prey is a herbivore or has radius   *)
(* < 0.8 x the killer's radius, and the killer's energy is strictly        *)
(* greater than the prey's.                                                *)
(***************************************************************************)
C7_PredationConditions ==
    AfterPredation =>
        \A pid \in Removed :
            LET prey == Lookup(prev.organisms, pid)
                killer == Lookup(prev.organisms, cur)
                reach == getRadius(killer) + 300
                both == getRadius(killer) + getRadius(prey)
            IN  /\ \/ killer.species = "carnivore"
                   \/ killer.species = "omnivore" /\ killer.dna.aggression > 60
                /\ prey.id # killer.id
                /\ killer.energy >= 0 /\ prey.energy >= 0
                /\ DistSq(killer.x, killer.y, prey.x, prey.y) < reach * reach
                /\ DistSq(killer.x, killer.y, prey.x, prey.y) < both * both
                /\ \/ prey.species = "herbivore"
                   \/ getRadius(prey) * 10 < getRadius(killer) * 8
                /\ killer.energy > prey.energy

\* an omnivore with aggression 0.61 has killed a smaller organism that is not a
\* herbivore
C7_Witness ==
    /\ AfterPredation
    /\ Lookup(prev.organisms, cur).species = "omnivore"
    /\ Lookup(prev.organisms, cur).dna.aggression = 61
    /\ \E pid \in Removed : Lookup(prev.organisms, pid).species # "herbivore"

(***************************************************************************)
(* C8: the predation step of one organism's turn removes at most one       *)
(* organism, never the predator itself, even when several colliding        *)
(* organisms are eligible prey.                                            *)
(***************************************************************************)
C8_AtMostOnePrey ==
    AfterPredation =>
        /\ Cardinality(Removed) <= 1
        /\ cur \notin Removed
        /\ Len(organisms) >= Len(prev.organisms) - 1

\* a predator with two eligible colliding prey has killed one of them
C8_Witness ==
    /\ AfterPredation
    /\ Removed # {}
    /\ Cardinality({k \in 1..Len(prev.organisms) :
                       CanKill(Lookup(prev.organisms, cur), prev.organisms[k])}) >= 2

(***************************************************************************)
(* C9: Organism.reproduce is called on an organism only if, at its         *)
(* reproduction step, energy > dna.reproductionThreshold,                  *)
(* reproductionCooldown = 0 and age > 200; so the parent's age was at      *)
(* least 200 when the tick started (never 199), and it has lived more than *)
(* 200 ticks.                                                              *)
(***************************************************************************)
C9_ReproductionEligibility ==
    (AfterReproduction /\ child # NoChild) =>
        LET parent == Lookup(prev.organisms, cur)
        IN  /\ parent.energy > parent.dna.reproductionThreshold
            /\ parent.reproductionCooldown = 0
            /\ parent.age > 200
            /\ \A k \in 1..Len(tickStart.organisms) :
                   tickStart.organisms[k].id = cur
                       => tickStart.organisms[k].age >= 200

\* an organism of age 200 at the start of the tick has reproduced at age 201
C9_Witness ==
    /\ AfterReproduction
    /\ child # NoChild
    /\ Lookup(prev.organisms, cur).age = 201
    /\ \E k \in 1..Len(tickStart.organisms) :
           /\ tickStart.organisms[k].id = cur
           /\ tickStart.organisms[k].age = 200

(***************************************************************************)
(* C10: when an organism with energy above its threshold, cooldown 0 and   *)
(* age 201 or more has a qualifying same-species mate within 50 units at   *)
(* its reproduction step, it reproduces with certainty: it pays            *)
(* 0.6 x threshold, its cooldown becomes 300, and a child of its species   *)
(* is created within parent.radius + 10 of its position.  The child joins  *)
(* the world exactly when that point is outside every obstacle and inside  *)
(* the arena; otherwise it is discarded and no organism is added.          *)
(***************************************************************************)
C10_MatedParent ==
    /\ AfterReproduction
    /\ LET o == Lookup(prev.organisms, cur)
       IN  /\ o.energy > o.dna.reproductionThreshold
           /\ o.reproductionCooldown = 0
           /\ o.age >= 201
           /\ \E k \in 1..Len(prev.organisms) :
                  LET m == prev.organisms[k]
                  IN  /\ m.id # o.id
                      /\ m.species = o.species
                      /\ m.energy > m.dna.reproductionThreshold
                      /\ m.reproductionCooldown = 0
                      /\ m.age > 200
                      /\ DistSq(o.x, o.y, m.x, m.y) < 5000 * 5000

C10_MatedReproduction ==
    C10_MatedParent =>
        LET o == Lookup(prev.organisms, cur)
            after == Lookup(organisms, cur)
            limit == getRadius(o) + 1000
            inObstacle == \E k \in 1..Len(obstacles) :
                              /\ child.x >= obstacles[k].x
                              /\ child.x <= obstacles[k].x + obstacles[k].width
                              /\ child.y >= obstacles[k].y
                              /\ child.y <= obstacles[k].y + obstacles[k].height
            inArena == /\ child.x >= 0 /\ child.x <= CanvasWidth
                       /\ child.y >= 0 /\ child.y <= CanvasHeight
        IN  /\ child # NoChild
            /\ after.energy = o.energy - (o.dna.reproductionThreshold * 6) \div 10
            /\ after.reproductionCooldown = 300
            /\ child.species = o.species
            /\ DistSq(child.x, child.y, o.x, o.y) <= limit * limit
            /\ IF ~inObstacle /\ inArena
               THEN /\ Added = {child.id}
                    /\ organisms[Len(organisms)] = child
               ELSE Added = {}
            /\ Removed = {}

\* a mated parent next to an obstacle: its child was created inside the
\* obstacle and discarded, the parent having paid
C10_Witness ==
    /\ C10_MatedParent
    /\ child # NoChild
    /\ isPointInObstacle(obstacles, child.x, child.y)
    /\ Added = {}
    /\ Lookup(organisms, cur).energy < Lookup(prev.organisms, cur).energy

\* C10 as stated: a mated eligible parent always gets a child of its species
\* into the world within parent.radius + 10 of its position
C10_Original ==
    C10_MatedParent =>
        LET o == Lookup(prev.organisms, cur)
            limit == getRadius(o) + 1000
        IN  \E k \in 1..Len(organisms) :
                /\ organisms[k].id \in Added
                /\ organisms[k].species = o.species
                /\ DistSq(organisms[k].x, organisms[k].y, o.x, o.y) <= limit * limit

(***************************************************************************)
(* C11: every call of Organism.reproduce, with or without a mate, takes    *)
(* exactly 0.6 x reproductionThreshold from the initiating parent's energy *)
(* and sets its reproductionCooldown to 300, whether the child is added to *)
(* the world or discarded; no other organism changes in that step.         *)
(***************************************************************************)
C11_ReproductionCost ==
    (op.name = "Reproduction" /\ child # NoChild) =>
        LET before == Lookup(prev.organisms, cur)
            after == Lookup(organisms, cur)
        IN  /\ after.energy
                   = before.energy - (before.dna.reproductionThreshold * 6) \div 10
            /\ after.reproductionCooldown = 300
            /\ \A k \in 1..Len(prev.organisms) :
                   prev.organisms[k].id # cur => organisms[k] = prev.organisms[k]

\* a parent at the arena's left edge has reproduced: the child's spawn point
\* was outside the arena, the child was discarded, and the parent has paid
C11_Witness ==
    /\ op.name = "Reproduction"
    /\ child # NoChild
    /\ child.x < 0
    /\ Added = {}
    /\ Lookup(organisms, cur).reproductionCooldown = 300
    /\ Lookup(organisms, cur).energy
           = Lookup(prev.organisms, cur).energy
             - (Lookup(prev.organisms, cur).dna.reproductionThreshold * 6) \div 10

(***************************************************************************)
(* C12: a child whose spawn point is inside an obstacle or outside the     *)
(* arena (x < 0, x > width, y < 0 or y > height) is not added to the       *)
(* organism collection, any other child is, and stats.reproductionEvents   *)
(* rises by one exactly when a child is added: it counts added children,   *)
(* not calls of reproduce.  No other step of a tick and no command other   *)
(* than reset() changes the counter.                                       *)
(***************************************************************************)
C12_ReproductionEventsCountChildren ==
    /\ op.name = "Reproduction" =>
           LET inObstacle ==
                   \E k \in 1..Len(obstacles) :
                       /\ child.x >= obstacles[k].x
                       /\ child.x <= obstacles[k].x + obstacles[k].width
                       /\ child.y >= obstacles[k].y
                       /\ child.y <= obstacles[k].y + obstacles[k].height
               outside == \/ child.x < 0 \/ child.x > CanvasWidth
                          \/ child.y < 0 \/ child.y > CanvasHeight
           IN  /\ stats.reproductionEvents - prev.stats.reproductionEvents
                      = Cardinality(Added)
               /\ Len(organisms) = Len(prev.organisms) + Cardinality(Added)
               /\ child = NoChild => Added = {}
               /\ child # NoChild =>
                      IF inObstacle \/ outside
                      THEN Added = {} /\ child.id \notin Ids(organisms)
                      ELSE Added = {child.id}
    /\ op.name \notin {"Init", "Reproduction", "Reset"} =>
           stats.reproductionEvents = prev.stats.reproductionEvents

\* after one counted birth, a second call of reproduce in the same world
\* produced a child that was discarded, and the counter stayed at 1
C12_Witness ==
    /\ op.name = "Reproduction"
    /\ child # NoChild
    /\ Added = {}
    /\ prev.stats.reproductionEvents = 1
    /\ stats.reproductionEvents = 1

(***************************************************************************)
(* C13: every organism in the world, and every child Organism.reproduce    *)
(* returns, has speed and efficiency in [0.2, 2.0], aggression and         *)
(* socialness in [0, 1], size in [0.5, 1.5], reproductionThreshold in      *)
(* [40, 120] and lifespan in [1000, 6000]; this covers founders, organisms *)
(* placed by a click and offspring of either kind of reproduction.         *)
(***************************************************************************)
C13_TraitBounds ==
    LET InBounds(d) ==
            /\ d.speed >= 20 /\ d.speed <= 200
            /\ d.efficiency >= 20 /\ d.efficiency <= 200
            /\ d.aggression >= 0 /\ d.aggression <= 100
            /\ d.socialness >= 0 /\ d.socialness <= 100
            /\ d.size >= 50 /\ d.size <= 150
            /\ d.reproductionThreshold >= 4000 /\ d.reproductionThreshold <= 12000
            /\ d.lifespan >= 1000 /\ d.lifespan <= 6000
    IN  /\ \A k \in 1..Len(organisms) : InBounds(organisms[k].dna)
        /\ child # NoChild => InBounds(child.dna)

\* two parents of size 0.5, the lower bound, have had a child with a negative
\* perturbation (its speed is below theirs): its size is held at 0.5
C13_Witness ==
    /\ op.name = "Reproduction"
    /\ Added # {}
    /\ Lookup(prev.organisms, cur).dna.size = 50
    /\ child.dna.speed < Lookup(prev.organisms, cur).dna.speed
    /\ child.dna.size = 50
    /\ organisms[Len(organisms)] = child

(***************************************************************************)
(* C14: reset(), from whatever state it is called in, leaves exactly 25    *)
(* herbivores, 15 omnivores and 10 carnivores, exactly 40 food items, no   *)
(* particles, reproductionEvents = 0 and deathEvents = 0, and the obstacle *)
(* list it found.                                                          *)
(***************************************************************************)
C14_ResetRestoresDefaults ==
    op.name = "Reset" =>
        /\ Len(organisms) = 50
        /\ Cardinality({k \in 1..Len(organisms) : organisms[k].species = "herbivore"}) = 25
        /\ Cardinality({k \in 1..Len(organisms) : organisms[k].species = "omnivore"}) = 15
        /\ Cardinality({k \in 1..Len(organisms) : organisms[k].species = "carnivore"}) = 10
        /\ Ids(organisms) \cap Ids(prev.organisms) = {}
        /\ Len(food) = 40
        /\ Ids(food) \cap Ids(prev.food) = {}
        /\ particles = << >>
        /\ stats.reproductionEvents = 0
        /\ stats.deathEvents = 0
        /\ obstacles = prev.obstacles

\* reset() was called in a world that had particles, a non-zero death counter
\* and a population and food count other than the seeded ones
C14_Witness ==
    /\ op.name = "Reset"
    /\ prev.particles # << >>
    /\ prev.stats.deathEvents > 0
    /\ Len(prev.organisms) # 50
    /\ Len(prev.food) # 40
    /\ Len(organisms) = 50
    /\ Len(food) = 40

(***************************************************************************)
(* C15: after reset() the global tick counter (time) is 0 and the periodic *)
(* food-spawn timer (foodSpawnTimer) is 0.                                 *)
(***************************************************************************)
C15_ResetClocks ==
    op.name = "Reset" => time = 0 /\ foodSpawnTimer = 0

(***************************************************************************)
(* C16: no step of a tick, no frame, no placement click, no key (speed,    *)
(* pause, placement mode) and no applySettings lowers                      *)
(* stats.reproductionEvents or stats.deathEvents; reset() sets both to 0.  *)
(***************************************************************************)
C16_CountersMonotonic ==
    /\ op.name \notin {"Init", "Reset"} =>
           /\ stats.reproductionEvents >= prev.stats.reproductionEvents
           /\ stats.deathEvents >= prev.stats.deathEvents
    /\ op.name = "Reset" =>
           stats.reproductionEvents = 0 /\ stats.deathEvents = 0

\* a frame in which a child was born has ended with updateStats(), and a
\* command has run after it: both counters are what they were
C16_Witness ==
    /\ op.name \in {"Click", "KeyDown", "ApplySettings"}
    /\ stats.reproductionEvents >= 1
    /\ stats.deathEvents >= 1
    /\ stats = prev.stats
    /\ stats.totalPopulation = Len(organisms)

(***************************************************************************)
(* C17: an update() call made while the world is paused returns at once:   *)
(* the tick counter, the food-spawn timer, every organism, the food list,  *)
(* the particle list, the event counters and the rest of the statistics    *)
(* are what they were, and the world is still paused and between frames.   *)
(***************************************************************************)
C17_PausedFrameChangesNothing ==
    (op.name = "Frame" /\ prev.paused) =>
        /\ time = prev.time
        /\ foodSpawnTimer = prev.foodSpawnTimer
        /\ organisms = prev.organisms
        /\ food = prev.food
        /\ particles = prev.particles
        /\ stats = prev.stats
        /\ obstacles = prev.obstacles
        /\ speed = prev.speed
        /\ paused
        /\ pc = "idle"

\* a tick has run, the world was paused, and update() was called on the paused
\* world with organisms, food and live particles in it
C17_Witness ==
    /\ op.name = "Frame"
    /\ prev.paused
    /\ paused
    /\ time > 300
    /\ organisms # << >>
    /\ particles # << >>
    /\ pc = "idle"

(***************************************************************************)
(* C18: an unpaused update() call at speed s in {0.5, 1, 2, 4} advances    *)
(* the global tick counter by exactly s (speed is held in halves, so twice *)
(* the advance equals speed); n such calls advance it by n * s.            *)
(***************************************************************************)
C18_TicksPerFrame ==
    op.name = "FrameEnd" => (time - frameStart) * 2 = speed

(***************************************************************************)
(* C19: the end of each logical tick increments foodSpawnTimer once.  If   *)
(* the incremented timer exceeds 80 and there are fewer than 100 food      *)
(* items, 1 to 3 items are appended and the timer becomes 0; each item     *)
(* lies at the last of at most 10 drawn points, every earlier one having   *)
(* been inside an obstacle, and lies outside every obstacle unless it is   *)
(* the 10th.  Otherwise the food list is unchanged and the timer keeps its *)
(* incremented value.  No other step of a frame writes the timer, so two   *)
(* periodic spawns are at least 81 ticks apart, and a periodic spawn never *)
(* leaves more than 102 items.                                             *)
(***************************************************************************)
C19_PeriodicFoodSpawn ==
    /\ op.name = "TickEnd" =>
           IF prev.foodSpawnTimer + 1 > 80 /\ Len(prev.food) < 100
           THEN /\ Len(food) - Len(prev.food) \in 1..3
                /\ Len(food) <= 102
                /\ SubSeq(food, 1, Len(prev.food)) = prev.food
                /\ foodSpawnTimer = 0
                /\ \A k \in (Len(prev.food) + 1)..Len(food) :
                       \E draws \in FoodDraws : \E d \in 1..Len(draws) :
                           LET cands == draws[d].cands
                               n == PlacementAttempts(cands, 1)
                               In(m) == \E b \in 1..Len(obstacles) :
                                   /\ Candidate(cands, m)[1] >= obstacles[b].x
                                   /\ Candidate(cands, m)[1]
                                          <= obstacles[b].x + obstacles[b].width
                                   /\ Candidate(cands, m)[2] >= obstacles[b].y
                                   /\ Candidate(cands, m)[2]
                                          <= obstacles[b].y + obstacles[b].height
                           IN  /\ <<food[k].x, food[k].y>> = Candidate(cands, n)
                               /\ n >= 1 /\ n <= 10
                               /\ \A m \in 1..(n - 1) : In(m)
                               /\ n < 10 => ~In(n)
           ELSE /\ food = prev.food
                /\ foodSpawnTimer = prev.foodSpawnTimer + 1
    /\ op.name \in {"Frame", "TickBegin", "TurnAI", "TurnUpdate", "FeedStep",
                    "Predation", "Reproduction", "Death", "FrameEnd"} =>
           /\ foodSpawnTimer = prev.foodSpawnTimer
           /\ Len(food) <= Len(prev.food)

\* a periodic spawn in a world of 99 food items has added three, the last of
\* them inside an obstacle after ten draws, and reset the timer
C19_Witness ==
    /\ op.name = "TickEnd"
    /\ Len(prev.food) = 99
    /\ Len(food) = 102
    /\ foodSpawnTimer = 0
    /\ prev.foodSpawnTimer = 80
    /\ \E k \in 100..102 : isPointInObstacle(obstacles, food[k].x, food[k].y)

(***************************************************************************)
(* C20: a canvas click, in any placement mode, whose point is inside an    *)
(* obstacle or outside the arena creates nothing and leaves the organism,  *)
(* food and particle collections unchanged; any other click adds exactly   *)
(* one entity of the selected kind at that point.                          *)
(***************************************************************************)
C20_PlacementValidated ==
    op.name = "Click" =>
        LET x == op.arg[1]
            y == op.arg[2]
            inObstacle == \E k \in 1..Len(obstacles) :
                              /\ x >= obstacles[k].x
                              /\ x <= obstacles[k].x + obstacles[k].width
                              /\ y >= obstacles[k].y
                              /\ y <= obstacles[k].y + obstacles[k].height
            outside == x < 0 \/ x > CanvasWidth \/ y < 0 \/ y > CanvasHeight
        IN  IF inObstacle \/ outside
            THEN /\ organisms = prev.organisms
                 /\ food = prev.food
                 /\ particles = prev.particles
            ELSE IF prev.currentAction = "food"
                 THEN /\ organisms = prev.organisms
                      /\ Len(food) = Len(prev.food) + 1
                      /\ SubSeq(food, 1, Len(prev.food)) = prev.food
                      /\ food[Len(food)].x = x /\ food[Len(food)].y = y
                 ELSE /\ food = prev.food
                      /\ Len(organisms) = Len(prev.organisms) + 1
                      /\ SubSeq(organisms, 1, Len(prev.organisms)) = prev.organisms
                      /\ organisms[Len(organisms)].species = prev.currentAction
                      /\ organisms[Len(organisms)].x = x
                      /\ organisms[Len(organisms)].y = y

(***************************************************************************)
(* C21: the obstacle list is the one made at world creation: no step of a  *)
(* tick (turn, feeding, predation, reproduction, death, tick end), no      *)
(* frame, no click, no key, no applySettings and no reset() adds, removes  *)
(* or changes an obstacle.                                                 *)
(***************************************************************************)
C21_ObstaclesFixed ==
    /\ obstacles = Obstacles
    /\ obstacles = prev.obstacles

\* reset() has run in a world in which a tick had gone by with a removal, and
\* the five obstacles are what they were
C21_Witness ==
    /\ op.name = "Reset"
    /\ prev.time > 300
    /\ prev.stats.deathEvents > 50 - Len(prev.organisms)
    /\ Len(obstacles) = 5
    /\ obstacles = Obstacles

(***************************************************************************)
(* C22: obstacles are impassable: an organism whose centre is outside      *)
(* every obstacle rectangle before its physical update has its centre      *)
(* outside every obstacle rectangle after it, and no organism in the       *)
(* world, seeded founders included, ever has its centre inside an          *)
(* obstacle.  (Inside is taken strictly: a centre on a rectangle's edge    *)
(* counts as outside.)                                                     *)
(***************************************************************************)
C22_ObstaclesImpassable ==
    LET Inside(o) == \E k \in 1..Len(obstacles) :
                         /\ o.x > obstacles[k].x
                         /\ o.x < obstacles[k].x + obstacles[k].width
                         /\ o.y > obstacles[k].y
                         /\ o.y < obstacles[k].y + obstacles[k].height
    IN  /\ op.name = "TurnUpdate" =>
               (~Inside(Lookup(prev.organisms, cur))
                    => ~Inside(Lookup(organisms, cur)))
        /\ \A k \in 1..Len(organisms) : ~Inside(organisms[k])

(***************************************************************************)
(* C23: an organism's species, DNA trait vector and maxEnergy are fixed at *)
(* its creation, with maxEnergy = 80 + 40 x size: no step of a tick (turn, *)
(* feeding, kill, reproduction as parent or as mate, death check) and no   *)
(* command changes them in an organism that stays in the world, and every  *)
(* child Organism.reproduce returns has the species of the organism that   *)
(* initiated the reproduction.                                             *)
(***************************************************************************)
C23_GenomeImmutable ==
    /\ \A k \in 1..Len(organisms) :
           organisms[k].maxEnergy = 8000 + 40 * organisms[k].dna.size
    /\ \/ organisms = prev.organisms
       \/ \A k \in 1..Len(organisms), n \in 1..Len(prev.organisms) :
           organisms[k].id = prev.organisms[n].id =>
               /\ organisms[k].species = prev.organisms[n].species
               /\ organisms[k].dna = prev.organisms[n].dna
               /\ organisms[k].maxEnergy = prev.organisms[n].maxEnergy
    /\ (op.name = "Reproduction" /\ child # NoChild) =>
           /\ child.species = Lookup(prev.organisms, cur).species
           /\ child.maxEnergy = 8000 + 40 * child.dna.size

\* a sexual reproduction has added a child whose traits differ from the
\* initiating parent's: parent and mate keep their species, traits and
\* maxEnergy, the parent having paid energy
C23_Witness ==
    /\ op.name = "Reproduction"
    /\ child # NoChild
    /\ Added = {child.id}
    /\ Len(potentialMates(Lookup(prev.organisms, cur), prev.organisms)) > 0
    /\ child.dna # Lookup(prev.organisms, cur).dna
    /\ child.species = Lookup(organisms, cur).species
    /\ Lookup(organisms, cur).energy < Lookup(prev.organisms, cur).energy
    /\ Lookup(organisms, cur).dna = Lookup(prev.organisms, cur).dna

(***************************************************************************)
(* C24: applySettings called with target maxFood = M when there are F food *)
(* items appends exactly max(0, min(M - F, 20)) items and removes none, so *)
(* the food count never passes M unless it already did; it changes no      *)
(* organism, no statistic or event counter, and neither clock (time,       *)
(* foodSpawnTimer); when F >= M the food list is unchanged.                *)
(***************************************************************************)
C24_ApplySettingsTopsUp ==
    op.name = "ApplySettings" =>
        LET M == op.arg
            F == Len(prev.food)
            added == IF M - F < 20 THEN (IF M - F > 0 THEN M - F ELSE 0) ELSE 20
        IN  /\ Len(food) = F + added
            /\ SubSeq(food, 1, F) = prev.food
            /\ Len(food) <= (IF F > M THEN F ELSE M)
            /\ F >= M => food = prev.food
            /\ organisms = prev.organisms
            /\ stats = prev.stats
            /\ time = prev.time
            /\ foodSpawnTimer = prev.foodSpawnTimer
            /\ particles = prev.particles
            /\ obstacles = prev.obstacles

\* applySettings with target 100 in a world of organisms with fewer than 80
\* food items: the limit of 20 binds, and the count stays short of the target
C24_Witness ==
    /\ op.name = "ApplySettings"
    /\ op.arg - Len(prev.food) > 20
    /\ Len(food) = Len(prev.food) + 20
    /\ Len(food) < op.arg
    /\ organisms # << >>

(***************************************************************************)
(* C25: removal is by identity.  Throughout an organism's turn the element *)
(* at the loop index is that organism, so when the death check removes the *)
(* element at the loop index it removes the organism whose turn it is and  *)
(* nothing else, also when in that turn the organism killed a prey stored  *)
(* at a lower or at a higher index or appended a child.  A prey removed by *)
(* predation is another organism than the predator and collided with it,   *)
(* and every other organism stays where it was.                            *)
(***************************************************************************)
C25_RemovalByIdentity ==
    /\ pc \in {"update", "feed", "repro", "death"} =>
           /\ i >= 1 /\ i <= Len(organisms)
           /\ organisms[i].id = cur
    /\ op.name = "Death" =>
           LET o == prev.organisms[prev.i]
               Others(s) == SelectSeq(s, LAMBDA e : e.id # cur)
           IN  /\ o.id = cur
               /\ IF o.energy <= 0 \/ o.age > o.dna.lifespan
                  THEN /\ Removed = {cur}
                       /\ Len(organisms) = Len(prev.organisms) - 1
                       /\ organisms = Others(prev.organisms)
                  ELSE organisms = prev.organisms
    /\ AfterPredation =>
           \A pid \in Removed :
               LET prey == Lookup(prev.organisms, pid)
                   killer == Lookup(prev.organisms, cur)
                   reach == getRadius(killer) + 300
                   Rest(s) == SelectSeq(s, LAMBDA e : e.id \notin {cur, pid})
               IN  /\ pid # cur
                   /\ cur \in Ids(organisms)
                   /\ DistSq(killer.x, killer.y, prey.x, prey.y) < reach * reach
                   /\ Rest(organisms) = Rest(prev.organisms)

\* an old predator stored after its prey took the first turn of the tick: it
\* killed the prey at the lower index, appended a child, and was then removed
\* by the death check, the child staying in the world
C25_Witness ==
    /\ op.name = "Death"
    /\ Removed = {cur}
    /\ turns = <<cur>>
    /\ preyed # {}
    /\ \E k \in 1..Len(tickStart.organisms), n \in 1..Len(tickStart.organisms) :
           /\ k < n
           /\ tickStart.organisms[k].id \in preyed
           /\ tickStart.organisms[n].id = cur
    /\ child # NoChild
    /\ Ids(organisms) = {child.id}

(***************************************************************************)
(* C26: mate selection.  At the reproduction step of an eligible organism  *)
(* (energy above its threshold, cooldown 0, age above 200): if some other  *)
(* organism of its species is eligible too and less than 50 units away,    *)
(* Organism.reproduce is called with certainty and the child's traits are  *)
(* the crossover of the organism's with those of the first such organism   *)
(* in collection order; if there is none, reproduce is called exactly when *)
(* the 10% draw succeeds, and the child's traits are a mutation of the     *)
(* organism's own.  An organism that is not eligible does not reproduce.   *)
(***************************************************************************)
C26_MateSelection ==
    op.name = "Reproduction" =>
        LET o == Lookup(prev.organisms, cur)
            Eligible(e) == /\ e.energy > e.dna.reproductionThreshold
                           /\ e.reproductionCooldown = 0
                           /\ e.age > 200
            mates == {k \in 1..Len(prev.organisms) :
                         /\ prev.organisms[k].id # cur
                         /\ prev.organisms[k].species = o.species
                         /\ Eligible(prev.organisms[k])
                         /\ DistSq(o.x, o.y, prev.organisms[k].x, prev.organisms[k].y)
                                < 5000 * 5000}
            first == CHOOSE k \in mates : \A n \in mates : k <= n
        IN  IF ~Eligible(o) THEN child = NoChild /\ op.arg = << >>
            ELSE IF mates # {}
                 THEN /\ child # NoChild
                      /\ op.arg = << >>
                      /\ \E r \in ReproDraws :
                             child.dna = ClampDNA(CrossoverDNA(o.dna,
                                                               prev.organisms[first].dna,
                                                               r.m))
                 ELSE /\ op.arg \in {<<TRUE>>, <<FALSE>>}
                      /\ child # NoChild <=> op.arg = <<TRUE>>
                      /\ child # NoChild =>
                             \E r \in ReproDraws :
                                 child.dna = ClampDNA(MutateDNA(o.dna, r.m))

\* an eligible organism with two eligible mates in range, of different traits,
\* has reproduced: the child is the crossover with the first in order, which is
\* the farther of the two and the larger
C26_Witness ==
    /\ op.name = "Reproduction"
    /\ child # NoChild
    /\ Len(prev.organisms) = 3
    /\ cur = prev.organisms[3].id
    /\ prev.organisms[1].dna # prev.organisms[2].dna
    /\ Len(potentialMates(prev.organisms[3], prev.organisms)) = 2
    /\ DistSq(prev.organisms[3].x, prev.organisms[3].y,
              prev.organisms[1].x, prev.organisms[1].y)
           > DistSq(prev.organisms[3].x, prev.organisms[3].y,
                    prev.organisms[2].x, prev.organisms[2].y)
    /\ child.dna.size > prev.organisms[3].dna.size + 10

(***************************************************************************)
(* C27: the primary statistics are refreshed once per logical tick from    *)
(* the final collections: when a logical tick has ended, at any speed,     *)
(* herbivoreCount + carnivoreCount + omnivoreCount = totalPopulation = the *)
(* number of organisms in the world, and foodCount = the number of food    *)
(* items.  A tick has ended when the next tick of the same update() call   *)
(* is about to begin, or when update() has returned.                       *)
(***************************************************************************)
C27_StatsPerTick ==
    (\/ AfterTickEnd /\ TickLoopContinues(tick, speed)
     \/ op.name = "FrameEnd") =>
        /\ stats.herbivoreCount + stats.carnivoreCount + stats.omnivoreCount
               = stats.totalPopulation
        /\ stats.totalPopulation = Len(organisms)
        /\ stats.foodCount = Len(food)

(***************************************************************************)
(* C28: the target state machine.  In updateAI the organism acquires the   *)
(* nearest eligible prey if the hunting rule applies and has a candidate,  *)
(* else the nearest food if the foraging rule applies and there is food,   *)
(* else it keeps the target it had: an empty candidate set neither sets    *)
(* nor clears a target, and when both rules select, the prey wins.  The    *)
(* locomotion step then clears the target exactly when the organism is     *)
(* within 5 units of it.  No other step of the program changes the target  *)
(* of an organism that stays in the world, so a target goes from set to    *)
(* unset only in that way.                                                 *)
(***************************************************************************)
C28_TargetStateMachine ==
    /\ \/ organisms = prev.organisms
       \/ \A k \in 1..Len(organisms), n \in 1..Len(prev.organisms) :
           (/\ organisms[k].id = prev.organisms[n].id
            /\ ~(op.name = "TurnAI" /\ organisms[k].id = cur))
               => organisms[k].target = prev.organisms[n].target
    /\ op.name = "TurnAI" =>
           LET o == Lookup(prev.organisms, cur)
               after == Lookup(organisms, cur)
               foraging == /\ o.species \in {"herbivore", "omnivore"}
                           /\ o.energy * 10 < o.maxEnergy * 7
               hunting == /\ \/ o.species = "carnivore"
                             \/ o.species = "omnivore" /\ o.dna.aggression > 50
                          /\ o.energy * 10 < o.maxEnergy * 6
               foodPts == {<<prev.food[k].x, prev.food[k].y>> : k \in 1..Len(prev.food)}
               preyIdx == {k \in 1..Len(prev.organisms) :
                              /\ prev.organisms[k].id # cur
                              /\ \/ prev.organisms[k].species = "herbivore"
                                 \/ /\ prev.organisms[k].species = "omnivore"
                                    /\ RadiusLess(prev.organisms[k], 1, o, 1)}
               preyPts == {<<prev.organisms[k].x, prev.organisms[k].y>> : k \in preyIdx}
               Nearest(S, t) ==
                   /\ t \in S
                   /\ \A c \in S : DistSq(o.x, o.y, t[1], t[2])
                                       <= DistSq(o.x, o.y, c[1], c[2])
               Acquired(t) ==
                   IF hunting /\ preyPts # {} THEN Nearest(preyPts, t)
                   ELSE IF foraging /\ foodPts # {} THEN Nearest(foodPts, t)
                   ELSE t = o.target
               Reached(t) == DistSq(o.x, o.y, t[1], t[2]) <= 500 * 500
           IN  \E t \in preyPts \cup foodPts \cup {o.target} :
                   /\ Acquired(t)
                   /\ after.target = IF t = NoTarget THEN NoTarget
                                     ELSE IF Reached(t) THEN NoTarget
                                     ELSE t

\* a hungry omnivore of aggression 0.55 with food 10 units away and a prey 20
\* units away has run updateAI: both rules selected, and its target is the prey
C28_Witness ==
    /\ op.name = "TurnAI"
    /\ Lookup(prev.organisms, cur).species = "omnivore"
    /\ Lookup(prev.organisms, cur).target = NoTarget
    /\ prev.food # << >>
    /\ ForageTarget(Lookup(prev.organisms, cur), prev.food) # NoTarget
    /\ HuntTarget(Lookup(prev.organisms, cur), prev.organisms) # NoTarget
    /\ ForageTarget(Lookup(prev.organisms, cur), prev.food)
           # HuntTarget(Lookup(prev.organisms, cur), prev.organisms)
    /\ Lookup(organisms, cur).target
           = HuntTarget(Lookup(prev.organisms, cur), prev.organisms)

(***************************************************************************)
(* C29: when Organism.update has run, the organism's position is clamped   *)
(* into the arena by its radius: radius <= x <= width - radius and         *)
(* radius <= y <= height - radius, the radius being the one update         *)
(* computed (from the energy before this update's consumption), and hence  *)
(* also for the radius after it.  No other step moves an organism, so      *)
(* every organism that has had a turn is where its last update left it.    *)
(***************************************************************************)
C29_ClampedIntoArena ==
    /\ op.name = "TurnUpdate" =>
           LET o == Lookup(organisms, cur)
               radius == getRadius(Lookup(prev.organisms, cur))
           IN  /\ radius >= 300
               /\ radius <= o.x /\ o.x <= CanvasWidth - radius
               /\ radius <= o.y /\ o.y <= CanvasHeight - radius
               /\ o.energy >= 0 =>
                      /\ getRadius(o) <= o.x /\ o.x <= CanvasWidth - getRadius(o)
                      /\ getRadius(o) <= o.y /\ o.y <= CanvasHeight - getRadius(o)
    /\ \/ organisms = prev.organisms
       \/ \A k \in 1..Len(organisms), n \in 1..Len(prev.organisms) :
           (/\ organisms[k].id = prev.organisms[n].id
            /\ ~(op.name = "TurnUpdate" /\ organisms[k].id = cur))
               => /\ organisms[k].x = prev.organisms[n].x
                  /\ organisms[k].y = prev.organisms[n].y

\* an organism moving down and right at the bottom-right corner has been
\* updated: its move went past both bounds, and it stands at
\* (width - radius, height - radius) with both velocity components reflected
C29_Witness ==
    /\ op.name = "TurnUpdate"
    /\ LET before == Lookup(prev.organisms, cur)
           o == Lookup(organisms, cur)
       IN  /\ before.x + before.dx > CanvasWidth - getRadius(before)
           /\ before.y + before.dy > CanvasHeight - getRadius(before)
           /\ o.x = CanvasWidth - getRadius(before)
           /\ o.y = CanvasHeight - getRadius(before)
           /\ o.dx < 0 /\ o.dy < 0

(***************************************************************************)
(* C30: population accounting.  When a tick has ended and after every      *)
(* command (and in fact after every step of a tick), the number of         *)
(* organisms in the world is 50, the population seeded for the current     *)
(* run, plus the organisms placed by clicks since the last reset, plus     *)
(* stats.reproductionEvents, minus stats.deathEvents.                      *)
(***************************************************************************)
C30_PopulationAccounting ==
    Len(organisms) = 50 + placed + stats.reproductionEvents - stats.deathEvents

\* a carnivore was placed by a click, and a tick has ended in which an
\* organism died: the count is one placement up and one death down
C30_Witness ==
    /\ AfterTickEnd
    /\ placed = 1
    /\ Ids(tickStart.organisms) \ Ids(organisms) # {}
    /\ \E k \in 1..Len(organisms) :
           organisms[k].id \notin {1} /\ organisms[k].species = "carnivore"
    /\ Len(organisms) = 50 + 1 + stats.reproductionEvents - stats.deathEvents

(***************************************************************************)
(* C31: energy bounds.  Every organism in the world has energy <=          *)
(* maxEnergy at all times, and energy > 0 whenever it is not in the middle *)
(* of its own turn; an organism's energy changes only in its own turn (the *)
(* metabolism of update, feeding, its own kill, its own reproduction       *)
(* cost), never in another organism's turn and never by a command.         *)
(***************************************************************************)
InOwnTurn(o) == pc \in {"update", "feed", "repro", "death"} /\ o.id = cur

C31_EnergyBounds ==
    /\ \A k \in 1..Len(organisms) :
           /\ organisms[k].energy <= organisms[k].maxEnergy
           /\ InOwnTurn(organisms[k]) \/ organisms[k].energy > 0
    /\ \/ organisms = prev.organisms
       \/ \A k \in 1..Len(organisms), n \in 1..Len(prev.organisms) :
           (/\ organisms[k].id = prev.organisms[n].id
            /\ organisms[k].energy # prev.organisms[n].energy) =>
               /\ organisms[k].id = cur
               /\ \/ AfterTurnUpdate
                  \/ AfterFeedStep
                  \/ AfterPredation /\ Removed # {}
                  \/ AfterReproduction /\ child # NoChild

\* a predator has killed one of two neighbours in its turn and is filled to
\* its maxEnergy by the kill; the neighbour that stays keeps its energy
C31_Witness ==
    /\ AfterPredation
    /\ Removed # {}
    /\ Lookup(organisms, cur).energy > Lookup(prev.organisms, cur).energy
    /\ Lookup(organisms, cur).energy = Lookup(organisms, cur).maxEnergy
    /\ \E k \in 1..Len(organisms) :
           /\ organisms[k].id # cur
           /\ organisms[k].energy = Lookup(prev.organisms, organisms[k].id).energy

(***************************************************************************)
(* C32: sexual reproduction charges only the organism that initiates it.   *)
(* The reproduce(mate) call leaves the chosen mate as it was, its energy   *)
(* and reproductionCooldown included, so the mate is still eligible right  *)
(* after the call; every organism other than the initiator is unchanged.   *)
(* (That the mate can then initiate a reproduction itself, in the same     *)
(* tick or in the next one, is shown by the two reachable states below.)   *)
(***************************************************************************)
C32_MateNotCharged ==
    (op.name = "Reproduction" /\ child # NoChild) =>
        LET o == Lookup(prev.organisms, cur)
            mates == potentialMates(o, prev.organisms)
        IN  /\ \A n \in 1..Len(prev.organisms) :
                   prev.organisms[n].id # cur =>
                       organisms[n] = prev.organisms[n]
            /\ Len(mates) > 0 =>
                   /\ mated = [parent |-> cur, mate |-> mates[1].id, time |-> time]
                   /\ Lookup(organisms, mates[1].id).energy = mates[1].energy
                   /\ Lookup(organisms, mates[1].id).reproductionCooldown = 0
                   /\ canReproduce(Lookup(organisms, mates[1].id))
                   /\ Lookup(organisms, cur).reproductionCooldown = 300

\* the mate of a reproduction of this tick, its own turn coming later in the
\* tick, has initiated a reproduction itself
C32_Witness ==
    /\ op.name = "Reproduction"
    /\ child # NoChild
    /\ mated.mate = cur
    /\ mated.time = time
    /\ mated.parent \in Ids(organisms)
    /\ Lookup(organisms, mated.parent).reproductionCooldown = 300

\* the mate of a reproduction of the previous tick, chosen after its own turn
\* of that tick, has initiated a reproduction itself
C32_NextTick ==
    /\ op.name = "Reproduction"
    /\ child # NoChild
    /\ mated.mate = cur
    /\ mated.time + 1 = time
    /\ {cur, mated.parent} \subseteq Ids(tickStart.organisms) \cap Ids(organisms)
    /\ IndexOf(tickStart.organisms, cur) > IndexOf(tickStart.organisms, mated.parent)
    /\ Lookup(organisms, mated.parent).reproductionCooldown = 300

(***************************************************************************)
(* C33: cooldown spacing.  reproductionCooldown is always an integer in    *)
(* 0..300; Organism.update lowers it by exactly 1 while it is positive and *)
(* leaves it at 0 otherwise, and nothing else changes it except the        *)
(* organism's own reproduce call, which sets it to 300; two reproduce      *)
(* calls initiated by the same organism are at least 300 ticks apart.      *)
(***************************************************************************)
C33_CooldownSpacing ==
    /\ \A k \in 1..Len(organisms) : organisms[k].reproductionCooldown \in 0..300
    /\ \/ organisms = prev.organisms
       \/ \A k \in 1..Len(organisms), n \in 1..Len(prev.organisms) :
           organisms[k].id = prev.organisms[n].id =>
               LET before == prev.organisms[n].reproductionCooldown
                   after == organisms[k].reproductionCooldown
               IN  IF organisms[k].id = cur /\ AfterTurnUpdate
                   THEN after = (IF before > 0 THEN before - 1 ELSE 0)
                   ELSE IF /\ organisms[k].id = cur
                           /\ op.name = "Reproduction"
                           /\ child # NoChild
                        THEN before = 0 /\ after = 300
                        ELSE after = before
    /\ \A id \in DOMAIN initiated :
           Len(initiated[id]) = 2 => initiated[id][2] - initiated[id][1] >= 300
    /\ \A k \in 1..Len(organisms) :
           organisms[k].reproductionCooldown > 0 =>
               /\ organisms[k].id \in DOMAIN initiated
               /\ LET last == initiated[organisms[k].id][Len(initiated[organisms[k].id])]
                  IN  organisms[k].reproductionCooldown >= 300 - (time - last)

\* an organism that reproduced 299 ticks ago took a turn that ended its
\* cooldown and reproduced again in the same turn, 300 ticks after the first
C33_Witness ==
    /\ op.name = "Reproduction"
    /\ child # NoChild
    /\ cur \in DOMAIN initiated
    /\ Len(initiated[cur]) = 2
    /\ initiated[cur][2] - initiated[cur][1] = 300
    /\ Lookup(organisms, cur).reproductionCooldown = 300

(***************************************************************************)
(* C34: an organism added during a tick (a child appended by the           *)
(* reproduction block) takes no turn in that tick: while the tick runs and *)
(* when it ends, the child has begun no turn, its age is 0, its energy is  *)
(* 0.8 x maxEnergy and its cooldown is 0; it leaves the world in its birth *)
(* tick only as the prey of an organism whose turn came later.  The turns  *)
(* of a tick are taken by organisms present when the tick began.           *)
(***************************************************************************)
InTick == pc \in {"org", "update", "feed", "repro", "death"} \/ AfterTickEnd

Newborn(o) == o.id \notin Ids(tickStart.organisms)

C34_NewbornTakesNoTurn ==
    InTick =>
        /\ \A k \in 1..Len(organisms) :
               Newborn(organisms[k]) =>
                   /\ \A t \in 1..Len(turns) : turns[t] # organisms[k].id
                   /\ organisms[k].age = 0
                   /\ organisms[k].energy * 10 = organisms[k].maxEnergy * 8
                   /\ organisms[k].reproductionCooldown = 0
        /\ \A t \in 1..Len(turns) : turns[t] \in Ids(tickStart.organisms)
        /\ \A id \in Removed :
               id \notin Ids(tickStart.organisms) =>
                   /\ AfterPredation
                   /\ id # cur
                   /\ id \in preyed

\* the tick has ended with a child of this tick in the world, another organism
\* having taken its turn after the child's birth
C34_Witness ==
    /\ AfterTickEnd
    /\ \E k \in 1..Len(organisms) :
           /\ Newborn(organisms[k])
           /\ organisms[k].age = 0
    /\ \E id \in DOMAIN initiated :
           /\ initiated[id][Len(initiated[id])] = time
           /\ Len(turns) >= 2
           /\ turns[Len(turns)] # id

\* a child of this tick has been killed by a predator whose turn came after
\* its birth
C34_ChildPreyed ==
    /\ AfterPredation
    /\ \E id \in Removed : id \notin Ids(tickStart.organisms)
    /\ cur \in Ids(tickStart.organisms)

(***************************************************************************)
(* C35: reproduction never kills the parent.  Right after Organism.        *)
(* reproduce the initiating organism's energy is greater than 0.4 x its    *)
(* reproductionThreshold, hence positive; when the death check of that     *)
(* turn removes it, it does so because the organism is past its lifespan.  *)
(***************************************************************************)
C35_ReproductionNeverKills ==
    /\ (op.name = "Reproduction" /\ child # NoChild) =>
           LET o == Lookup(organisms, cur)
           IN  /\ o.energy * 10 > 4 * o.dna.reproductionThreshold
               /\ o.energy > 0
    /\ (op.name = "Death" /\ child # NoChild) =>
           LET o == Lookup(prev.organisms, cur)
           IN  /\ o.energy > 0
               /\ Removed = {cur} => o.age > o.dna.lifespan

\* an organism whose energy was within 0.02 of its threshold reproduced, was
\* left with barely more than 0.4 x the threshold, and passed the death check
C35_Witness ==
    /\ op.name = "Death"
    /\ child # NoChild
    /\ cur \in Ids(organisms)
    /\ LET o == Lookup(organisms, cur)
       IN  /\ o.reproductionCooldown = 300
           /\ o.energy * 10 <= 4 * o.dna.reproductionThreshold + 20

(***************************************************************************)
(* C36: getTrend(current, previous) returns "stable" whenever current      *)
(* equals previous, for every non-negative count, previous = 0 included;   *)
(* it returns "stable" when previous is undefined; otherwise it returns    *)
(* "up" or "down" according to the sign of current - previous exactly when *)
(* |current - previous| >= 5% of |previous|, and "stable" when not.        *)
(***************************************************************************)
\* the trend the statement gives for a count and its optional predecessor
C36_StatedTrend(current, previous) ==
    IF previous = Undefined THEN "stable"
    ELSE IF current = previous[1] THEN "stable"
    ELSE IF Abs(current - previous[1]) * 20 >= Abs(previous[1])
         THEN (IF current - previous[1] > 0 THEN "up" ELSE "down")
         ELSE "stable"

\* the last step called updateEnhancedStats
PanelUpdated == op.name \in {"FrameEnd", "updateEnhancedStats"}

C36_Trend ==
    PanelUpdated =>
        /\ previousStats.populationTrend =
               C36_StatedTrend(previousStats.totalPopulation,
                           Optional(prev.previousStats, "totalPopulation"))
        /\ previousStats.foodTrend =
               C36_StatedTrend(previousStats.foodCount,
                           Optional(prev.previousStats, "foodCount"))

\* the statement without the case current = previous = 0: this much holds
C36_TrendAwayFromZero ==
    PanelUpdated =>
        /\ (previousStats.totalPopulation # 0
              \/ Optional(prev.previousStats, "totalPopulation") # <<0>>) =>
               previousStats.populationTrend =
                   C36_StatedTrend(previousStats.totalPopulation,
                               Optional(prev.previousStats, "totalPopulation"))
        /\ (previousStats.foodCount # 0
              \/ Optional(prev.previousStats, "foodCount") # <<0>>) =>
               previousStats.foodTrend =
                   C36_StatedTrend(previousStats.foodCount,
                               Optional(prev.previousStats, "foodCount"))

\* a count of 0 following a count of 0 is reported as falling
C36_ZeroAfterZero ==
    /\ PanelUpdated
    /\ previousStats.totalPopulation = 0
    /\ Optional(prev.previousStats, "totalPopulation") = <<0>>
    /\ previousStats.populationTrend = "down"

(***************************************************************************)
(* C37: commands do not refresh the snapshot.  A click, reset(), a key and *)
(* applySettings leave stats.totalPopulation, the per-species counts,      *)
(* stats.foodCount and the two averages as they were; these change only    *)
(* when an unpaused update() recomputes them, so while the world is paused *)
(* the snapshot can disagree with the collections for as long as the pause *)
(* lasts.                                                                  *)
(***************************************************************************)
SnapshotOf(st) ==
    <<st.herbivoreCount, st.carnivoreCount, st.omnivoreCount, st.totalPopulation,
      st.foodCount, st.averageAge, st.averageEnergy>>

C37_CommandsKeepSnapshot ==
    op.name # "Init" =>
        /\ op.name \in {"Click", "Reset", "KeyDown", "ApplySettings"} =>
               SnapshotOf(stats) = SnapshotOf(prev.stats)
        /\ SnapshotOf(stats) # SnapshotOf(prev.stats) =>
               /\ op.name = "FrameEnd"
               /\ ~paused
               /\ stats.totalPopulation = Len(organisms)
               /\ stats.foodCount = Len(food)

\* the world was paused and an organism was placed by a click; an update()
\* call has since returned at once, the snapshot still counting one organism
\* fewer than the world holds
C37_Witness ==
    /\ op.name = "Frame"
    /\ paused
    /\ pc = "idle"
    /\ placed = 1
    /\ stats.totalPopulation = Len(organisms) - 1
    /\ stats.herbivoreCount + stats.carnivoreCount + stats.omnivoreCount
           = Len(organisms) - 1

\* the same after reset() in a paused world: 50 organisms and 40 food items,
\* the snapshot still that of the world before
C37_AfterReset ==
    /\ op.name = "Frame"
    /\ paused
    /\ Len(organisms) = 50
    /\ Len(food) = 40
    /\ stats.totalPopulation < 50
    /\ stats.foodCount < 40

====
